---- MODULE Spec2Model ----
(***************************************************************************)
(* Audit and action-integrity subsystem of the SenseSafe backend:          *)
(* the audit ledger writer (AuditService.log_action), the three action     *)
(* orchestrators, the structured logger, the Azure secondary sink, and the *)
(* admin / auth / SOS request handlers that call them.                     *)
(*                                                                         *)
(* One action of the model is one request handled to completion.  The      *)
(* environment chooses, per request, which persistence step fails and      *)
(* whether the telemetry client raises.                                    *)
(***************************************************************************)
EXTENDS Integers, Sequences, FiniteSets, TLC

(* ---------------------------------------------------------------- bounds *)
\* Behaviours of at most MaxRequests requests are explored.
MaxRequests == 2
\* The ledgers the audit queries are applied to have at most MaxRows rows,
\* stamped 1..MaxRows.
MaxRows == 3

(* ------------------------------------------------------- values and enums *)
\* Python None in a string-valued position.
NULL == "NULL"
\* Python None in an id-valued position (ids are positive).
NoId == 0

UserRole == {"ADMIN", "USER"}
IncidentStatus == {"PENDING", "VERIFIED", "RESOLVED"}
SOSStatus == {"NEED_HELP", "SAFE"}
AuditAction ==
    {"VIEW_INCIDENTS", "VERIFY_INCIDENT", "RESOLVE_INCIDENT", "UPDATE_INCIDENT",
     "CREATE_ALERT", "LOGIN", "LOGOUT", "FAILED_LOGIN"}

Emails == {"admin@sensesafe.com", "user@example.org"}
Passwords == {"pw1", "pw2"}
IncidentIds == {1, 2}
SosIds == {1, 2}

HTTP_200_OK == 200
HTTP_201_CREATED == 201
HTTP_400_BAD_REQUEST == 400
HTTP_401_UNAUTHORIZED == 401
HTTP_403_FORBIDDEN == 403
HTTP_404_NOT_FOUND == 404
\* An exception that leaves a route unhandled is answered with 500.
HTTP_500_INTERNAL_SERVER_ERROR == 500

(* ------------------------------------------------------------------ state *)
VARIABLES
    users,             \* table users: sequence of User rows, id = position
    incidents,         \* table incidents: id -> row
    sos_alerts,        \* table sos: sequence of SOS rows, id = position
    messages,          \* table messages: sequence of Message rows
    alerts,            \* table alerts: sequence of Alert rows
    ledger,            \* table audit_logs: sequence of AuditLog rows
    azure_configured,  \* azure_logging._azure_configured (set at import)
    resp,              \* the response of the request handled last
    env,               \* the failures the environment injected into it
    tr,                \* the side effects it produced, in order
    served,            \* the number of requests handled so far
    inflight           \* per worker: the request it is in the middle of

vars == <<users, incidents, sos_alerts, messages, alerts, ledger,
          azure_configured, resp, env, tr, served, inflight>>

(* ------------------------------------------------------------ environment *)
\* Outcome of one add / commit / refresh sequence on the session.
PersistOutcome == {"ok", "commit_fails", "refresh_fails"}

NoFault ==
    [primary |-> "unused", audit |-> "unused", message |-> "unused",
     az1 |-> FALSE, az2 |-> FALSE]

\* primary: the handler's own add/commit/refresh; audit: the one of
\* log_action; az1: track_event raises in the orchestrator's sink call;
\* az2: track_event raises in log_action's sink call; message: the
\* add/commit of the Message row that accompanies an SOS.
Faults ==
    [primary : PersistOutcome \cup {"unused"},
     audit : PersistOutcome \cup {"unused"},
     message : {"ok", "commit_fails", "unused"},
     az1 : BOOLEAN, az2 : BOOLEAN]

\* A choice of the environment is listed once: a failure that a step never
\* reached is left at its default.
Canon(f) ==
    /\ f.primary \in {"commit_fails", "refresh_fails"}
          => f.audit = "unused" /\ f.message = "unused" /\ ~f.az1
    /\ f.audit # "ok" => ~f.az2
    /\ f.message # "unused"
          => f.primary = "ok" /\ f.audit = "unused" /\ ~f.az1

\* The choices open to a handler that commits and then audits, to one that
\* only audits through an orchestrator, to one that only calls log_action,
\* and to create_sos_alert.
MutFaults == {f \in Faults : Canon(f) /\ f.message = "unused"
                                   /\ f.primary # "unused"}
AuthFaults == {f \in Faults : Canon(f) /\ f.message = "unused"
                                    /\ f.primary = "unused"}
ViewFaults == {f \in AuthFaults : f.audit # "unused" /\ ~f.az1}
SosFaults == {f \in Faults : Canon(f) /\ f.audit = "unused" /\ ~f.az1
                                   /\ f.primary # "unused"
                                   /\ (f.primary = "ok") = (f.message # "unused")}

(* ------------------------------------------------------- execution context *)
\* What a call chain threads through: the ledger table, the effects emitted
\* so far, the exception in flight ("none" if none) and the value returned
\* (an AuditLog id, NoId for None).
Ctx(l, t) == [ledger |-> l, tr |-> t, exc |-> "none", ret |-> NoId]

Raise(c, e) == [c EXCEPT !.exc = e, !.ret = NoId]

\* try: ... except Exception: pass
Swallow(c) == [c EXCEPT !.exc = "none"]

Effect(sink, name, admin_id, admin_email, action, resource_type, resource_id, success, error_message, ok) ==
    [sink |-> sink, name |-> name, admin_id |-> admin_id,
     admin_email |-> admin_email, action |-> action,
     resource_type |-> resource_type, resource_id |-> resource_id,
     success |-> success, error_message |-> error_message, ok |-> ok]

\* The details payload: the keys the orchestrators add; NULL = key absent.
\* "extra" stands for the handler's own keys (counts, filters, titles).
Details(previous_status, new_status, severity, email, extra) ==
    [previous_status |-> previous_status, new_status |-> new_status,
     severity |-> severity, email |-> email, extra |-> extra]

EmptyDetails == Details(NULL, NULL, NULL, NULL, FALSE)

\* created_at of the next row: the store's clock, read at the insert.
Now(l) == Len(l) + 1

(* ---------------------------------------------------------- secondary sink *)
\* azure_logging.log_to_azure: False when not configured, False (and an
\* error line on the application logger) when the client raises, True when
\* the event was tracked.  The effect records the call and, in ok, the value
\* returned.
log_to_azure_reports_true(c, ev, trackFails) ==
    [c EXCEPT !.tr = Append(@, [ev EXCEPT !.ok = azure_configured])]

log_to_azure(c, ev, trackFails) ==
    IF ~azure_configured
    THEN [c EXCEPT !.tr = Append(@, [ev EXCEPT !.ok = FALSE])]
    ELSE IF trackFails
    THEN [c EXCEPT !.tr = Append(Append(@, [ev EXCEPT !.ok = FALSE]),
                              [ev EXCEPT !.sink = "app_logger",
                                         !.name = "error", !.ok = TRUE])]
    ELSE [c EXCEPT !.tr = Append(@, [ev EXCEPT !.ok = TRUE])]

log_admin_action_azure(c, admin_id, admin_email, action, resource_type, resource_id, success, error_message, trackFails) ==
    log_to_azure(c,
        Effect("azure", "AdminAction", admin_id, admin_email, action,
               resource_type, resource_id, success, error_message, FALSE),
        trackFails)

log_security_event_azure(c, event_type, user_id, email, success, trackFails) ==
    log_to_azure(c,
        Effect("azure", "SecurityEvent", user_id, email, event_type,
               NULL, NoId, success, NULL, FALSE),
        trackFails)

log_incident_action_azure(c, action, incident_id, admin_id, admin_email, trackFails) ==
    log_to_azure(c,
        Effect("azure", "IncidentAction", admin_id, admin_email, action,
               NULL, incident_id, TRUE, NULL, FALSE),
        trackFails)

log_alert_action_azure(c, action, alert_id, admin_id, admin_email, trackFails) ==
    log_to_azure(c,
        Effect("azure", "AlertAction", admin_id, admin_email, action,
               NULL, alert_id, TRUE, NULL, FALSE),
        trackFails)

(* -------------------------------------------------------- structured logger *)
\* logger.log_admin_action: one line on the admin logger, at level info when
\* success and error otherwise.
log_admin_action(c, admin_id, admin_email, action, resource_type, resource_id, success, error_message) ==
    [c EXCEPT !.tr = Append(@,
        Effect("admin_logger", IF success THEN "info" ELSE "error",
               admin_id, admin_email, action, resource_type, resource_id,
               success, error_message, TRUE))]

(* ------------------------------------------------------------ ledger writer *)
AuditLog_forgets_resource(id, admin_user, action, resource_type, resource_id, details, success, error_message, created_at) ==
    [id |-> id, admin_id |-> admin_user.id, admin_email |-> admin_user.email,
     action |-> action, resource_type |-> resource_type,
     resource_id |-> NoId, details |-> details,
     success |-> IF success THEN 1 ELSE 0, error_message |-> error_message,
     created_at |-> created_at]

AuditLog_always_succeeds(id, admin_user, action, resource_type, resource_id, details, success, error_message, created_at) ==
    [id |-> id, admin_id |-> admin_user.id, admin_email |-> admin_user.email,
     action |-> action, resource_type |-> resource_type,
     resource_id |-> resource_id, details |-> details,
     success |-> 1, error_message |-> error_message,
     created_at |-> created_at]

AuditLog(id, admin_user, action, resource_type, resource_id, details, success, error_message, created_at) ==
    [id |-> id, admin_id |-> admin_user.id, admin_email |-> admin_user.email,
     action |-> action, resource_type |-> resource_type,
     resource_id |-> resource_id, details |-> details,
     success |-> IF success THEN 1 ELSE 0, error_message |-> error_message,
     created_at |-> created_at]

\* self.db.add(audit_entry); self.db.commit(): the row joins the table.
Persist_overwrites(table, row) ==
    IF Len(table) = 0 THEN <<row>>
    ELSE [table EXCEPT ![Len(table)] = row]

Persist_one_per_resource(table, row) ==
    IF \E i \in 1..Len(table) : /\ table[i].resource_id = row.resource_id
                                /\ table[i].resource_type = row.resource_type
    THEN [i \in 1..Len(table) |->
             IF /\ table[i].resource_id = row.resource_id
                /\ table[i].resource_type = row.resource_type
             THEN row ELSE table[i]]
    ELSE Append(table, row)

Persist(table, row) == Append(table, row)

\* AuditService.log_action: add, commit, refresh; then the log line; then
\* the guarded sink call; returns the row.
log_action_logs_first(c, admin_user, action, resource_type, resource_id, details, success, error_message, f) ==
    LET audit_entry ==
            AuditLog(Len(c.ledger) + 1, admin_user, action, resource_type,
                     resource_id, details, success, error_message,
                     Now(c.ledger))
        logged ==
            log_admin_action(c, admin_user.id, admin_user.email, action,
                             resource_type, resource_id, success,
                             error_message)
        committed ==
            [logged EXCEPT !.ledger = Persist(@, audit_entry),
                           !.tr = Append(@,
                               Effect("ledger", "commit", admin_user.id,
                                      admin_user.email, action, resource_type,
                                      resource_id, success, error_message,
                                      TRUE))]
        forwarded ==
            Swallow(log_admin_action_azure(committed, admin_user.id,
                        admin_user.email, action, resource_type, resource_id,
                        success, error_message, f.az2))
    IN  IF f.audit = "commit_fails" THEN Raise(logged, "SQLAlchemyError")
        ELSE IF f.audit = "refresh_fails"
             THEN Raise(committed, "SQLAlchemyError")
        ELSE [forwarded EXCEPT !.ret = audit_entry.id]

log_action_forwards_first(c, admin_user, action, resource_type, resource_id, details, success, error_message, f) ==
    LET audit_entry ==
            AuditLog(Len(c.ledger) + 1, admin_user, action, resource_type,
                     resource_id, details, success, error_message,
                     Now(c.ledger))
        committed ==
            [c EXCEPT !.ledger = Persist(@, audit_entry),
                      !.tr = Append(@,
                          Effect("ledger", "commit", admin_user.id,
                                 admin_user.email, action, resource_type,
                                 resource_id, success, error_message, TRUE))]
        forwarded ==
            Swallow(log_admin_action_azure(committed, admin_user.id,
                        admin_user.email, action, resource_type, resource_id,
                        success, error_message, f.az2))
        logged ==
            log_admin_action(forwarded, admin_user.id, admin_user.email,
                             action, resource_type, resource_id, success,
                             error_message)
    IN  IF f.audit = "commit_fails" THEN Raise(c, "SQLAlchemyError")
        ELSE IF f.audit = "refresh_fails"
             THEN Raise(committed, "SQLAlchemyError")
        ELSE [logged EXCEPT !.ret = audit_entry.id]

log_action(c, admin_user, action, resource_type, resource_id, details, success, error_message, f) ==
    LET audit_entry ==
            AuditLog(Len(c.ledger) + 1, admin_user, action, resource_type,
                     resource_id, details, success, error_message,
                     Now(c.ledger))
        committed ==
            [c EXCEPT !.ledger = Persist(@, audit_entry),
                      !.tr = Append(@,
                          Effect("ledger", "commit", admin_user.id,
                                 admin_user.email, action, resource_type,
                                 resource_id, success, error_message, TRUE))]
        logged ==
            log_admin_action(committed, admin_user.id, admin_user.email,
                             action, resource_type, resource_id, success,
                             error_message)
        forwarded ==
            Swallow(log_admin_action_azure(logged, admin_user.id,
                        admin_user.email, action, resource_type, resource_id,
                        success, error_message, f.az2))
    IN  IF f.audit = "commit_fails" THEN Raise(c, "SQLAlchemyError")
        ELSE IF f.audit = "refresh_fails"
             THEN Raise(committed, "SQLAlchemyError")
        ELSE [forwarded EXCEPT !.ret = audit_entry.id]

(* ------------------------------------------------------------ orchestrators *)
log_incident_action_drops_id(c, admin_user, action, incident_id, previous_status, new_status, success, error_message, f) ==
    LET audit_details ==
            Details(previous_status, new_status, NULL, NULL, TRUE)
        c1 == Swallow(log_incident_action_azure(c, action, incident_id,
                          admin_user.id, admin_user.email, f.az1))
    IN  log_action(c1, admin_user, action, "INCIDENT", NoId,
                   audit_details, success, error_message, f)

log_incident_action(c, admin_user, action, incident_id, previous_status, new_status, success, error_message, f) ==
    LET audit_details ==
            Details(previous_status, new_status, NULL, NULL, TRUE)
        c1 == Swallow(log_incident_action_azure(c, action, incident_id,
                          admin_user.id, admin_user.email, f.az1))
    IN  log_action(c1, admin_user, action, "INCIDENT", incident_id,
                   audit_details, success, error_message, f)

log_alert_action(c, admin_user, action, alert_id, severity, success, error_message, f) ==
    LET audit_details == Details(NULL, NULL, severity, NULL, TRUE)
        c1 == Swallow(log_alert_action_azure(c, action, alert_id,
                          admin_user.id, admin_user.email, f.az1))
    IN  log_action(c1, admin_user, action, "ALERT", alert_id, audit_details,
                   success, error_message, f)

NoUser == [id |-> NoId, email |-> NULL, role |-> NULL, password_hash |-> NULL]

log_auth_action_unguarded(c, admin_user, action, email, success, error_message, f) ==
    LET admin_id == IF admin_user = NoUser THEN NoId ELSE admin_user.id
        c1 == Swallow(log_security_event_azure(c, action, admin_id, email,
                          success, f.az1))
    IN  log_action(c1, admin_user, action, "AUTH", NoId,
                   Details(NULL, NULL, NULL, email, FALSE), success,
                   error_message, f)

log_auth_action_drops_error(c, admin_user, action, email, success, error_message, f) ==
    LET admin_id == IF admin_user = NoUser THEN NoId ELSE admin_user.id
        c1 == Swallow(log_security_event_azure(c, action, admin_id, email,
                          success, f.az1))
    IN  IF admin_user = NoUser THEN [c1 EXCEPT !.ret = NoId]
        ELSE log_action(c1, admin_user, action, "AUTH", NoId,
                        Details(NULL, NULL, NULL, email, FALSE), success,
                        NULL, f)

log_auth_action(c, admin_user, action, email, success, error_message, f) ==
    LET admin_id == IF admin_user = NoUser THEN NoId ELSE admin_user.id
        c1 == Swallow(log_security_event_azure(c, action, admin_id, email,
                          success, f.az1))
    IN  IF admin_user = NoUser THEN [c1 EXCEPT !.ret = NoId]
        ELSE log_action(c1, admin_user, action, "AUTH", NoId,
                        Details(NULL, NULL, NULL, email, FALSE), success,
                        error_message, f)

\* The keyword parameters log_auth_action declares.  A call that passes any
\* other keyword raises TypeError before the body runs.
log_auth_action_params ==
    {"db", "admin_user", "action", "email", "success", "error_message",
     "ip_address", "user_agent"}

Call_log_auth_action(c, kwargs, admin_user, action, email, success, error_message, f) ==
    IF kwargs \subseteq log_auth_action_params
    THEN log_auth_action(c, admin_user, action, email, success,
                         error_message, f)
    ELSE Raise(c, "TypeError")

(* ------------------------------------------------------------ core/security *)
hash_password(password) == "$2b$12$" \o password

User(id, email, role, password) ==
    [id |-> id, email |-> email, role |-> role,
     password_hash |-> hash_password(password)]

verify_password(plain_password, hashed_password) ==
    hashed_password = hash_password(plain_password)

\* A bearer token: the demo string, or a JWT with its sub claim (NoId when
\* absent), whether its signature verifies and whether it has expired.
DemoToken == [kind |-> "demo", sub |-> NoId, signed |-> FALSE, expired |-> FALSE]

create_access_token(sub) ==
    [kind |-> "jwt", sub |-> sub, signed |-> TRUE, expired |-> FALSE]

Tokens ==
    {DemoToken}
    \cup {create_access_token(s) : s \in {NoId, 1, 2}}
    \cup {[kind |-> "jwt", sub |-> 1, signed |-> FALSE, expired |-> FALSE],
          [kind |-> "jwt", sub |-> 1, signed |-> TRUE, expired |-> TRUE]}

\* jwt.decode raises JWTError for anything but a signed, unexpired JWT.
decode_access_token(token) ==
    IF token.kind = "jwt" /\ token.signed /\ ~token.expired
    THEN [code |-> HTTP_200_OK, sub |-> token.sub]
    ELSE [code |-> HTTP_401_UNAUTHORIZED, sub |-> NoId]

UserByEmail(email) ==
    IF \E i \in 1..Len(users) : users[i].email = email
    THEN users[CHOOSE i \in 1..Len(users) : users[i].email = email]
    ELSE NoUser

UserById(id) == IF id \in 1..Len(users) THEN users[id] ELSE NoUser

get_current_user(token) ==
    LET demo == UserByEmail("admin@sensesafe.com")
        payload == decode_access_token(token)
        user == UserById(payload.sub)
    IN  IF token = DemoToken /\ demo # NoUser
        THEN [code |-> HTTP_200_OK, user |-> demo]
        ELSE IF payload.code # HTTP_200_OK \/ payload.sub = NoId
                \/ user = NoUser
        THEN [code |-> HTTP_401_UNAUTHORIZED, user |-> NoUser]
        ELSE [code |-> HTTP_200_OK, user |-> user]

require_admin(token) ==
    LET current == get_current_user(token)
    IN  IF current.code # HTTP_200_OK THEN current
        ELSE IF current.user.role # "ADMIN"
        THEN [code |-> HTTP_403_FORBIDDEN, user |-> NoUser]
        ELSE current

(* --------------------------------------------------------- handler results *)
\* What a handler leaves behind: the status code, the context c of its audit
\* call (c.exc is what that call raised to the handler, c.ret what it
\* returned), the failures it met, and the tables (unchanged unless
\* overridden).  The auth flows answer with their own code whatever the audit
\* call raised (except Exception: pass); the admin routes let it through.
NoBody == [total |-> 0, items |-> <<>>]

Res(code, c, f) ==
    [code |-> code, c |-> c, env |-> f, users |-> users,
     incidents |-> incidents, sos_alerts |-> sos_alerts,
     messages |-> messages, alerts |-> alerts, body |-> NoBody]

Start == Ctx(ledger, <<>>)

\* The failures a handler met when it stopped at its own commit.
AtPrimary(f) == [NoFault EXCEPT !.primary = f.primary]

\* The failures a handler met when it went on to the audit call c.  The
\* telemetry client is only called when the sink is configured.
AtAudit(f, c) ==
    LET called(n) == \E i \in 1..Len(c.tr) :
                        c.tr[i].sink = "azure" /\ c.tr[i].name = n
        reached == \E i \in 1..Len(c.tr) : c.tr[i].sink = "ledger"
    IN  [primary |-> f.primary,
         message |-> "unused",
         audit |-> IF reached \/ c.exc = "SQLAlchemyError"
                   THEN (IF f.audit = "unused" THEN "ok" ELSE f.audit)
                   ELSE "unused",
         az1 |-> f.az1 /\ azure_configured
                 /\ (called("IncidentAction") \/ called("AlertAction")
                     \/ called("SecurityEvent")),
         az2 |-> f.az2 /\ azure_configured /\ called("AdminAction")]

Status(c, ok) == IF c.exc = "none" THEN ok ELSE HTTP_500_INTERNAL_SERVER_ERROR

(* ---------------------------------------------- admin/service: the queries *)
\* Python truthiness of an optional string: None and "" are both falsy.
GivenStr(x) == x # NULL /\ x # ""

\* Python None in a datetime-valued position (stamps are positive).
NoDate == 0

\* The filter chain of AuditService.get_audit_logs: each `if <filter>:` adds a
\* WHERE clause, so a falsy filter is not applied and the others are ANDed.
Matching_exclusive_end(table, admin_id, action, resource_type, resource_id, start_date, end_date) ==
    LET matches(r) ==
            /\ admin_id # NoId => r.admin_id = admin_id
            /\ GivenStr(action) => r.action = action
            /\ GivenStr(resource_type) => r.resource_type = resource_type
            /\ resource_id # NoId => r.resource_id = resource_id
            /\ start_date # NoDate => r.created_at >= start_date
            /\ end_date # NoDate => r.created_at < end_date
    IN  SelectSeq(table, matches)

Matching(table, admin_id, action, resource_type, resource_id, start_date, end_date) ==
    LET matches(r) ==
            /\ admin_id # NoId => r.admin_id = admin_id
            /\ GivenStr(action) => r.action = action
            /\ GivenStr(resource_type) => r.resource_type = resource_type
            /\ resource_id # NoId => r.resource_id = resource_id
            /\ start_date # NoDate => r.created_at >= start_date
            /\ end_date # NoDate => r.created_at <= end_date
    IN  SelectSeq(table, matches)

\* order_by(desc(AuditLog.created_at)): the listings the database may produce,
\* later rows first; the query names no second sort key, so rows with equal
\* stamps may come in any order.  (For rows stored in strictly increasing
\* stamp order the only such listing is the reversed sequence.)
Orderings(rows) ==
    LET n == Len(rows)
        increasing == \A i \in 1..(n - 1) :
                          rows[i].created_at < rows[i + 1].created_at
        descending(q) == \A i \in 1..(n - 1) :
                             rows[q[i]].created_at >= rows[q[i + 1]].created_at
        one_to_one(q) == \A i, k \in 1..n : q[i] = q[k] => i = k
    IN  IF increasing THEN {[i \in 1..n |-> rows[n + 1 - i]]}
        ELSE {[i \in 1..n |-> rows[q[i]]] :
                 q \in {q \in [1..n -> 1..n] : one_to_one(q) /\ descending(q)}}

\* .offset(offset).limit(page_size) with offset = (page - 1) * page_size.
Page_counts_from_zero(ordered, page, page_size) ==
    LET offset == page * page_size
        last == IF offset + page_size < Len(ordered)
                THEN offset + page_size ELSE Len(ordered)
    IN  SubSeq(ordered, offset + 1, last)

Page(ordered, page, page_size) ==
    LET offset == (page - 1) * page_size
        last == IF offset + page_size < Len(ordered)
                THEN offset + page_size ELSE Len(ordered)
    IN  SubSeq(ordered, offset + 1, last)

\* AuditService.get_audit_logs: the results the query may return, one per
\* listing the database may produce.
AuditService_get_audit_logs(table, admin_id, action, resource_type, resource_id, start_date, end_date, page, page_size) ==
    {Page(ordered, page, page_size) :
        ordered \in Orderings(Matching(table, admin_id, action, resource_type,
                                       resource_id, start_date, end_date))}

\* datetime.min, the lower end of the pair query when start_date is None.
datetime_min == 0

\* AuditService.get_audit_stats: counts over the rows of the window.  by_admin
\* is a dict filled in one pass over the distinct (admin_id, admin_email)
\* pairs, keyed by the email and holding the count of the id: of the pairs
\* that share an email the one the database lists last stays, and the query
\* names no order, so every one of them may.  The results the call may return.
AuditService_get_audit_stats_counts_table(table, start_date, end_date) ==
    LET in_window(r) ==
            /\ start_date # NoDate => r.created_at >= start_date
            /\ end_date # NoDate => r.created_at <= end_date
        query == SelectSeq(table, in_window)
        count(P(_)) == Len(SelectSeq(table, P))
        observed(r) ==
            /\ r.created_at >= (IF start_date # NoDate THEN start_date
                                ELSE datetime_min)
            /\ r.created_at <= (IF end_date # NoDate THEN end_date
                                ELSE Now(table))
        pairs == {<<table[i].admin_id, table[i].admin_email>> :
                     i \in {k \in 1..Len(table) : observed(table[k])}}
        emails == {p[2] : p \in pairs}
        written_last == {w \in [emails -> pairs] :
                            \A e \in emails : w[e][2] = e}
        action_counts ==
            [action \in {a \in AuditAction :
                            count(LAMBDA r : r.action = a) > 0} |->
                count(LAMBDA r : r.action = action)]
    IN  {[total |-> Len(query),
          successful |-> count(LAMBDA r : r.success = 1),
          failed |-> count(LAMBDA r : r.success = 0),
          by_action |-> action_counts,
          by_admin |-> [e \in emails |->
                           count(LAMBDA r : r.admin_id = w[e][1])]] :
            w \in written_last}

AuditService_get_audit_stats_by_admin_ever(table, start_date, end_date) ==
    LET in_window(r) ==
            /\ start_date # NoDate => r.created_at >= start_date
            /\ end_date # NoDate => r.created_at <= end_date
        query == SelectSeq(table, in_window)
        count(P(_)) == Len(SelectSeq(query, P))
        ever(P(_)) == Len(SelectSeq(table, P))
        observed(r) ==
            /\ r.created_at >= (IF start_date # NoDate THEN start_date
                                ELSE datetime_min)
            /\ r.created_at <= (IF end_date # NoDate THEN end_date
                                ELSE Now(table))
        pairs == {<<table[i].admin_id, table[i].admin_email>> :
                     i \in {k \in 1..Len(table) : observed(table[k])}}
        emails == {p[2] : p \in pairs}
        written_last == {w \in [emails -> pairs] :
                            \A e \in emails : w[e][2] = e}
        action_counts ==
            [action \in {a \in AuditAction :
                            count(LAMBDA r : r.action = a) > 0} |->
                count(LAMBDA r : r.action = action)]
    IN  {[total |-> Len(query),
          successful |-> count(LAMBDA r : r.success = 1),
          failed |-> count(LAMBDA r : r.success = 0),
          by_action |-> action_counts,
          by_admin |-> [e \in emails |->
                           ever(LAMBDA r : r.admin_id = w[e][1])]] :
            w \in written_last}

AuditService_get_audit_stats(table, start_date, end_date) ==
    LET in_window(r) ==
            /\ start_date # NoDate => r.created_at >= start_date
            /\ end_date # NoDate => r.created_at <= end_date
        query == SelectSeq(table, in_window)
        count(P(_)) == Len(SelectSeq(query, P))
        observed(r) ==
            /\ r.created_at >= (IF start_date # NoDate THEN start_date
                                ELSE datetime_min)
            /\ r.created_at <= (IF end_date # NoDate THEN end_date
                                ELSE Now(table))
        pairs == {<<table[i].admin_id, table[i].admin_email>> :
                     i \in {k \in 1..Len(table) : observed(table[k])}}
        emails == {p[2] : p \in pairs}
        written_last == {w \in [emails -> pairs] :
                            \A e \in emails : w[e][2] = e}
        action_counts ==
            [action \in {a \in AuditAction :
                            count(LAMBDA r : r.action = a) > 0} |->
                count(LAMBDA r : r.action = action)]
    IN  {[total |-> Len(query),
          successful |-> count(LAMBDA r : r.success = 1),
          failed |-> count(LAMBDA r : r.success = 0),
          by_action |-> action_counts,
          by_admin |-> [e \in emails |->
                           count(LAMBDA r : r.admin_id = w[e][1])]] :
            w \in written_last}

(* ------------------------------------------------------------- auth/service *)
register_user(user_data, f) ==
    LET new_user == User(Len(users) + 1, user_data.email, user_data.role,
                         user_data.password)
        added == Append(users, new_user)
        audited ==
            Call_log_auth_action(Start,
                {"db", "admin_user", "action", "email", "success", "details"},
                new_user, "LOGIN", user_data.email, TRUE, NULL, f)
    IN  IF UserByEmail(user_data.email) # NoUser
        THEN Res(HTTP_400_BAD_REQUEST, Start, NoFault)
        ELSE IF f.primary = "commit_fails"
        THEN Res(HTTP_500_INTERNAL_SERVER_ERROR, Start, AtPrimary(f))
        ELSE IF f.primary = "refresh_fails"
        THEN [Res(HTTP_500_INTERNAL_SERVER_ERROR, Start, AtPrimary(f))
                EXCEPT !.users = added]
        ELSE [Res(HTTP_201_CREATED, audited, AtAudit(f, audited))
                EXCEPT !.users = added]

login_user(credentials, f) ==
    LET user == UserByEmail(credentials.email)
        unknown ==
            Call_log_auth_action(Start,
                {"db", "admin_user", "action", "email", "success",
                 "error_message", "ip_address"},
                NoUser, "FAILED_LOGIN", credentials.email, FALSE,
                "User not found", f)
        wrong ==
            Call_log_auth_action(Start,
                {"db", "admin_user", "action", "email", "success",
                 "error_message", "ip_address"},
                user, "FAILED_LOGIN", credentials.email, FALSE,
                "Invalid password", f)
        good ==
            Call_log_auth_action(Start,
                {"db", "admin_user", "action", "email", "success",
                 "ip_address", "details"},
                user, "LOGIN", credentials.email, TRUE, NULL, f)
    IN  IF user = NoUser
        THEN Res(HTTP_401_UNAUTHORIZED, unknown, AtAudit(f, unknown))
        ELSE IF ~verify_password(credentials.password, user.password_hash)
        THEN Res(HTTP_401_UNAUTHORIZED, wrong, AtAudit(f, wrong))
        ELSE Res(HTTP_200_OK, good, AtAudit(f, good))

logout_user_unguarded(user, f) ==
    LET audited ==
            Call_log_auth_action(Start,
                {"db", "admin_user", "action", "email", "success",
                 "ip_address"},
                user, "LOGOUT", user.email, TRUE, NULL, f)
    IN  Res(Status(audited, HTTP_200_OK), audited, AtAudit(f, audited))

logout_user(user, f) ==
    LET audited ==
            Call_log_auth_action(Start,
                {"db", "admin_user", "action", "email", "success",
                 "ip_address"},
                user, "LOGOUT", user.email, TRUE, NULL, f)
    IN  Res(HTTP_200_OK, audited, AtAudit(f, audited))

(* ------------------------------------------------------------- admin/routes *)
\* The details a list, stats or map endpoint records: its own keys only.
ViewDetails == Details(NULL, NULL, NULL, NULL, TRUE)

View(admin_user, resource_type, f) ==
    LET c == log_action(Start, admin_user, "VIEW_INCIDENTS", resource_type,
                        NoId, ViewDetails, TRUE, NULL, f)
    IN  Res(Status(c, HTTP_200_OK), c, AtAudit(f, c))

get_all_users(admin_user, f) == View(admin_user, "USER", f)

get_all_incidents_audits_invalid(admin_user, status_filter, f) ==
    IF GivenStr(status_filter) /\ status_filter \notin IncidentStatus
    THEN [View(admin_user, "INCIDENT", NoFault)
             EXCEPT !.code = HTTP_400_BAD_REQUEST, !.env = NoFault]
    ELSE View(admin_user, "INCIDENT", f)

get_all_incidents(admin_user, status_filter, f) ==
    IF GivenStr(status_filter) /\ status_filter \notin IncidentStatus
    THEN Res(HTTP_400_BAD_REQUEST, Start, NoFault)
    ELSE View(admin_user, "INCIDENT", f)

verify_incident(admin_user, incident_id, f) ==
    LET previous_status == incidents[incident_id].status
        updated == [incidents EXCEPT ![incident_id].status = "VERIFIED"]
        c == log_incident_action(Start, admin_user, "VERIFY_INCIDENT",
                                 incident_id, previous_status, "VERIFIED",
                                 TRUE, NULL, f)
    IN  IF incident_id \notin DOMAIN incidents
        THEN Res(HTTP_404_NOT_FOUND, Start, NoFault)
        ELSE IF f.primary = "commit_fails"
        THEN Res(HTTP_500_INTERNAL_SERVER_ERROR, Start, AtPrimary(f))
        ELSE IF f.primary = "refresh_fails"
        THEN [Res(HTTP_500_INTERNAL_SERVER_ERROR, Start, AtPrimary(f))
                EXCEPT !.incidents = updated]
        ELSE [Res(Status(c, HTTP_200_OK), c, AtAudit(f, c))
                EXCEPT !.incidents = updated]

resolve_incident_rejects_resolved(admin_user, incident_id, f) ==
    LET previous_status == incidents[incident_id].status
        updated == [incidents EXCEPT ![incident_id].status = "RESOLVED"]
        c == log_incident_action(Start, admin_user, "RESOLVE_INCIDENT",
                                 incident_id, previous_status, "RESOLVED",
                                 TRUE, NULL, f)
    IN  IF incident_id \notin DOMAIN incidents
        THEN Res(HTTP_404_NOT_FOUND, Start, NoFault)
        ELSE IF previous_status = "RESOLVED"
        THEN Res(HTTP_400_BAD_REQUEST, Start, NoFault)
        ELSE IF f.primary = "commit_fails"
        THEN Res(HTTP_500_INTERNAL_SERVER_ERROR, Start, AtPrimary(f))
        ELSE IF f.primary = "refresh_fails"
        THEN [Res(HTTP_500_INTERNAL_SERVER_ERROR, Start, AtPrimary(f))
                EXCEPT !.incidents = updated]
        ELSE [Res(Status(c, HTTP_200_OK), c, AtAudit(f, c))
                EXCEPT !.incidents = updated]

resolve_incident(admin_user, incident_id, f) ==
    LET previous_status == incidents[incident_id].status
        updated == [incidents EXCEPT ![incident_id].status = "RESOLVED"]
        c == log_incident_action(Start, admin_user, "RESOLVE_INCIDENT",
                                 incident_id, previous_status, "RESOLVED",
                                 TRUE, NULL, f)
    IN  IF incident_id \notin DOMAIN incidents
        THEN Res(HTTP_404_NOT_FOUND, Start, NoFault)
        ELSE IF f.primary = "commit_fails"
        THEN Res(HTTP_500_INTERNAL_SERVER_ERROR, Start, AtPrimary(f))
        ELSE IF f.primary = "refresh_fails"
        THEN [Res(HTTP_500_INTERNAL_SERVER_ERROR, Start, AtPrimary(f))
                EXCEPT !.incidents = updated]
        ELSE [Res(Status(c, HTTP_200_OK), c, AtAudit(f, c))
                EXCEPT !.incidents = updated]

\* update_data.status is None or the name of a status; the risk fields are
\* written the same way and are part of the "extra" details.
update_incident(admin_user, incident_id, update_data, f) ==
    LET previous_status == incidents[incident_id].status
        updated ==
            IF update_data.status # NULL
            THEN [incidents EXCEPT ![incident_id].status = update_data.status]
            ELSE incidents
        c == log_incident_action(Start, admin_user, "UPDATE_INCIDENT",
                                 incident_id, previous_status,
                                 update_data.status, TRUE, NULL, f)
    IN  IF incident_id \notin DOMAIN incidents
        THEN Res(HTTP_404_NOT_FOUND, Start, NoFault)
        ELSE IF f.primary = "commit_fails"
        THEN Res(HTTP_500_INTERNAL_SERVER_ERROR, Start, AtPrimary(f))
        ELSE IF f.primary = "refresh_fails"
        THEN [Res(HTTP_500_INTERNAL_SERVER_ERROR, Start, AtPrimary(f))
                EXCEPT !.incidents = updated]
        ELSE [Res(Status(c, HTTP_200_OK), c, AtAudit(f, c))
                EXCEPT !.incidents = updated]

create_alert_audits_first(admin_user, alert_data, f) ==
    LET new_alert == [id |-> Len(alerts) + 1, severity |-> alert_data.severity,
                      alert_type |-> alert_data.alert_type]
        added == Append(alerts, new_alert)
        early == log_alert_action(Start, admin_user, "CREATE_ALERT",
                                  new_alert.id, alert_data.severity, TRUE,
                                  NULL, NoFault)
        c == log_alert_action(Start, admin_user, "CREATE_ALERT", new_alert.id,
                              alert_data.severity, TRUE, NULL, f)
    IN  IF f.primary = "commit_fails"
        THEN Res(HTTP_500_INTERNAL_SERVER_ERROR, early, AtPrimary(f))
        ELSE IF f.primary = "refresh_fails"
        THEN [Res(HTTP_500_INTERNAL_SERVER_ERROR, Start, AtPrimary(f))
                EXCEPT !.alerts = added]
        ELSE [Res(Status(c, HTTP_201_CREATED), c, AtAudit(f, c))
                EXCEPT !.alerts = added]

create_alert(admin_user, alert_data, f) ==
    LET new_alert == [id |-> Len(alerts) + 1, severity |-> alert_data.severity,
                      alert_type |-> alert_data.alert_type]
        added == Append(alerts, new_alert)
        c == log_alert_action(Start, admin_user, "CREATE_ALERT", new_alert.id,
                              alert_data.severity, TRUE, NULL, f)
    IN  IF f.primary = "commit_fails"
        THEN Res(HTTP_500_INTERNAL_SERVER_ERROR, Start, AtPrimary(f))
        ELSE IF f.primary = "refresh_fails"
        THEN [Res(HTTP_500_INTERNAL_SERVER_ERROR, Start, AtPrimary(f))
                EXCEPT !.alerts = added]
        ELSE [Res(Status(c, HTTP_201_CREATED), c, AtAudit(f, c))
                EXCEPT !.alerts = added]

DefaultPage == 1
DefaultPageSize == 50
TotalPageSize == 10000
DefaultDays == 7

\* The two service.get_audit_logs calls of the route: the page asked for, and
\* page 1 of TotalPageSize rows whose length becomes the total.
AuditLogQueries(page, page_size, action, resource_type, admin_id) ==
    LET action_enum == IF GivenStr(action) THEN action ELSE NULL
    IN  [audit_logs :
            AuditService_get_audit_logs(ledger, admin_id, action_enum,
                                        resource_type, NoId, NoDate, NoDate,
                                        page, page_size),
         counted :
            AuditService_get_audit_logs(ledger, admin_id, action_enum,
                                        resource_type, NoId, NoDate, NoDate,
                                        1, TotalPageSize)]

\* db holds what the two queries returned.
get_audit_logs(admin_user, page, page_size, action, resource_type, admin_id, db, f) ==
    LET audit_logs == db.audit_logs
        total == Len(db.counted)
        viewed == View(admin_user, "AUDIT_LOG", f)
    IN  IF GivenStr(action) /\ action \notin AuditAction
        THEN Res(HTTP_400_BAD_REQUEST, Start, NoFault)
        ELSE IF viewed.code # HTTP_200_OK THEN viewed
        ELSE [viewed EXCEPT !.body =
                 [total |-> total,
                  items |-> [i \in 1..Len(audit_logs) |-> audit_logs[i].id]]]

\* The service.get_audit_stats call of the route, on the last `days` days.
AuditStatsQuery(days) ==
    LET end_date == Now(ledger)
    IN  AuditService_get_audit_stats(ledger, end_date - days, end_date)

\* db holds what the query returned.
get_audit_stats(admin_user, days, db, f) ==
    LET stats == db
        viewed == View(admin_user, "AUDIT_LOG", f)
    IN  IF viewed.code # HTTP_200_OK THEN viewed
        ELSE [viewed EXCEPT !.body = stats]

get_all_sos_alerts(admin_user, status_filter, f) ==
    IF GivenStr(status_filter) /\ status_filter \notin SOSStatus
    THEN Res(HTTP_400_BAD_REQUEST, Start, NoFault)
    ELSE View(admin_user, "SOS", f)

resolve_sos_audits_missing(admin_user, sos_id, f) ==
    LET previous_status == sos_alerts[sos_id].status
        updated == [sos_alerts EXCEPT ![sos_id].status = "SAFE"]
        missing == log_action(Start, admin_user, "RESOLVE_INCIDENT", "SOS",
                              sos_id, EmptyDetails, FALSE,
                              "SOS alert not found", NoFault)
        c == log_action(Start, admin_user, "RESOLVE_INCIDENT", "SOS", sos_id,
                        Details(previous_status, "SAFE", NULL, NULL, TRUE),
                        TRUE, NULL, f)
    IN  IF sos_id \notin DOMAIN sos_alerts
        THEN Res(HTTP_404_NOT_FOUND, missing, NoFault)
        ELSE IF f.primary = "commit_fails"
        THEN Res(HTTP_500_INTERNAL_SERVER_ERROR, Start, AtPrimary(f))
        ELSE IF f.primary = "refresh_fails"
        THEN [Res(HTTP_500_INTERNAL_SERVER_ERROR, Start, AtPrimary(f))
                EXCEPT !.sos_alerts = updated]
        ELSE [Res(Status(c, HTTP_200_OK), c, AtAudit(f, c))
                EXCEPT !.sos_alerts = updated]

resolve_sos(admin_user, sos_id, f) ==
    LET previous_status == sos_alerts[sos_id].status
        updated == [sos_alerts EXCEPT ![sos_id].status = "SAFE"]
        c == log_action(Start, admin_user, "RESOLVE_INCIDENT", "SOS", sos_id,
                        Details(previous_status, "SAFE", NULL, NULL, TRUE),
                        TRUE, NULL, f)
    IN  IF sos_id \notin DOMAIN sos_alerts
        THEN Res(HTTP_404_NOT_FOUND, Start, NoFault)
        ELSE IF f.primary = "commit_fails"
        THEN Res(HTTP_500_INTERNAL_SERVER_ERROR, Start, AtPrimary(f))
        ELSE IF f.primary = "refresh_fails"
        THEN [Res(HTTP_500_INTERNAL_SERVER_ERROR, Start, AtPrimary(f))
                EXCEPT !.sos_alerts = updated]
        ELSE [Res(Status(c, HTTP_200_OK), c, AtAudit(f, c))
                EXCEPT !.sos_alerts = updated]

get_sos_stats(admin_user, f) == View(admin_user, "SOS_STATS", f)

get_map_data(admin_user, f) == View(admin_user, "MAP_DATA", f)

(* --------------------------------------------------------------- sos/service *)
create_sos_alert_needs_message(sos_data, user, f) ==
    LET new_sos == [id |-> Len(sos_alerts) + 1, user_id |-> user.id,
                    status |-> sos_data.status]
        sos_message == [id |-> Len(messages) + 1, user_id |-> user.id,
                        message_type |-> "SOS"]
        added == Append(sos_alerts, new_sos)
        met == [NoFault EXCEPT !.primary = f.primary, !.message = f.message]
    IN  IF f.primary = "commit_fails"
        THEN Res(HTTP_500_INTERNAL_SERVER_ERROR, Start, AtPrimary(f))
        ELSE IF f.primary = "refresh_fails"
        THEN [Res(HTTP_500_INTERNAL_SERVER_ERROR, Start, AtPrimary(f))
                EXCEPT !.sos_alerts = added]
        ELSE IF f.message = "commit_fails"
        THEN [Res(HTTP_500_INTERNAL_SERVER_ERROR, Start, met)
                EXCEPT !.sos_alerts = added]
        ELSE [Res(HTTP_201_CREATED, Start, met)
                EXCEPT !.sos_alerts = added,
                       !.messages = Append(messages, sos_message)]

create_sos_alert(sos_data, user, f) ==
    LET new_sos == [id |-> Len(sos_alerts) + 1, user_id |-> user.id,
                    status |-> sos_data.status]
        sos_message == [id |-> Len(messages) + 1, user_id |-> user.id,
                        message_type |-> "SOS"]
        added == Append(sos_alerts, new_sos)
        met == [NoFault EXCEPT !.primary = f.primary, !.message = f.message]
    IN  IF f.primary = "commit_fails"
        THEN Res(HTTP_500_INTERNAL_SERVER_ERROR, Start, AtPrimary(f))
        ELSE IF f.primary = "refresh_fails"
        THEN [Res(HTTP_500_INTERNAL_SERVER_ERROR, Start, AtPrimary(f))
                EXCEPT !.sos_alerts = added]
        ELSE IF f.message = "commit_fails"
        THEN [Res(HTTP_201_CREATED, Start, met) EXCEPT !.sos_alerts = added]
        ELSE [Res(HTTP_201_CREATED, Start, met)
                EXCEPT !.sos_alerts = added,
                       !.messages = Append(messages, sos_message)]

\* No Authorization header at all.
NoToken == [kind |-> "none", sub |-> NoId, signed |-> FALSE, expired |-> FALSE]

optional_user(token) ==
    IF token = NoToken THEN NoUser ELSE get_current_user(token).user

(* ------------------------------------------------------------------ actions *)
\* The workers that handle requests, each with a session of its own.
Workers == {1, 2}

\* A worker between requests.
Idle ==
    [pc |-> "idle", op |-> "none", admin_id |-> NoId, incident_id |-> NoId,
     new_status |-> NULL, previous_status |-> NULL, before |-> NULL,
     after |-> NULL, row |-> NoId]

NoneInFlight == [w \in Workers |-> Idle]

NoResp ==
    [op |-> "none", code |-> 0, actor |-> NoId, target |-> NoId, arg |-> NULL,
     ledger_before |-> 0, audit_exc |-> "none", audit_ret |-> NoId,
     body |-> NoBody]

Init ==
    /\ users = <<User(1, "admin@sensesafe.com", "ADMIN", "pw1")>>
    /\ incidents = [i \in {1} |-> [status |-> "PENDING"]]
    /\ sos_alerts = <<>>
    /\ messages = <<>>
    /\ alerts = <<>>
    /\ ledger = <<>>
    /\ azure_configured \in BOOLEAN
    /\ resp = NoResp
    /\ env = NoFault
    /\ tr = <<>>
    /\ served = 0
    /\ inflight = NoneInFlight

\* A further request is accepted.
CanServe == served < MaxRequests

\* The request op, made by actor on target, is handled with result r under
\* the environment's choice f.
HandleArg(op, actor, target, arg, r, f) ==
    /\ served' = served + 1
    /\ r.env = f
    /\ users' = r.users
    /\ incidents' = r.incidents
    /\ sos_alerts' = r.sos_alerts
    /\ messages' = r.messages
    /\ alerts' = r.alerts
    /\ ledger' = r.c.ledger
    /\ tr' = r.c.tr
    /\ env' = r.env
    /\ resp' = [op |-> op, code |-> r.code, actor |-> actor,
                target |-> target, arg |-> arg,
                ledger_before |-> Len(ledger), audit_exc |-> r.c.exc,
                audit_ret |-> r.c.ret, body |-> r.body]
    /\ UNCHANGED <<azure_configured, inflight>>

Handle(op, actor, target, r, f) == HandleArg(op, actor, target, NULL, r, f)

\* The dependency (get_current_user / require_admin) rejects the request.
Denied(op, code) == Handle(op, NoId, NoId, Res(code, Start, NoFault), NoFault)

Register ==
    /\ CanServe
    /\ \E user_data \in [email : Emails, password : {"pw1"}, role : UserRole],
       f \in MutFaults :
        HandleArg("register_user",
                  IF UserByEmail(user_data.email) = NoUser /\ f.primary = "ok"
                  THEN Len(users) + 1 ELSE NoId,
                  NoId, user_data, register_user(user_data, f), f)

Login ==
    /\ CanServe
    /\ \E credentials \in [email : Emails, password : Passwords],
       f \in AuthFaults :
        HandleArg("login_user", UserByEmail(credentials.email).id, NoId,
                  credentials, login_user(credentials, f), f)

Logout ==
    /\ CanServe
    /\ \E token \in Tokens :
        LET auth == get_current_user(token)
        IN  IF auth.code # HTTP_200_OK THEN Denied("logout_user", auth.code)
            ELSE \E f \in AuthFaults :
                    Handle("logout_user", auth.user.id, NoId,
                           logout_user(auth.user, f), f)

GetAllUsers ==
    /\ CanServe
    /\ \E token \in Tokens :
        LET auth == require_admin(token)
        IN  IF auth.code # HTTP_200_OK THEN Denied("get_all_users", auth.code)
            ELSE \E f \in ViewFaults :
                    Handle("get_all_users", auth.user.id, NoId,
                           get_all_users(auth.user, f), f)

GetAllIncidents ==
    /\ CanServe
    /\ \E token \in Tokens :
        LET auth == require_admin(token)
        IN  IF auth.code # HTTP_200_OK
            THEN Denied("get_all_incidents", auth.code)
            ELSE \E status_filter \in {NULL, "", "RESOLVED", "BOGUS"},
                    f \in ViewFaults \cup {NoFault} :
                    HandleArg("get_all_incidents", auth.user.id, NoId,
                              status_filter,
                              get_all_incidents(auth.user, status_filter, f),
                              f)

VerifyIncident ==
    /\ CanServe
    /\ \E token \in Tokens :
        LET auth == require_admin(token)
        IN  IF auth.code # HTTP_200_OK
            THEN Denied("verify_incident", auth.code)
            ELSE \E incident_id \in IncidentIds, f \in MutFaults \cup {NoFault} :
                    Handle("verify_incident", auth.user.id, incident_id,
                           verify_incident(auth.user, incident_id, f), f)

ResolveIncident ==
    /\ CanServe
    /\ \E token \in Tokens :
        LET auth == require_admin(token)
        IN  IF auth.code # HTTP_200_OK
            THEN Denied("resolve_incident", auth.code)
            ELSE \E incident_id \in IncidentIds, f \in MutFaults \cup {NoFault} :
                    Handle("resolve_incident", auth.user.id, incident_id,
                           resolve_incident(auth.user, incident_id, f), f)

UpdateIncident ==
    /\ CanServe
    /\ \E token \in Tokens :
        LET auth == require_admin(token)
        IN  IF auth.code # HTTP_200_OK
            THEN Denied("update_incident", auth.code)
            ELSE \E incident_id \in IncidentIds,
                    update_data \in [status : {NULL, "RESOLVED"}],
                    f \in MutFaults \cup {NoFault} :
                    HandleArg("update_incident", auth.user.id, incident_id,
                              update_data.status,
                              update_incident(auth.user, incident_id,
                                              update_data, f), f)

CreateAlert ==
    /\ CanServe
    /\ \E token \in Tokens :
        LET auth == require_admin(token)
        IN  IF auth.code # HTTP_200_OK THEN Denied("create_alert", auth.code)
            ELSE \E alert_data \in [severity : {"CRITICAL"},
                                    alert_type : {"GENERAL"}],
                    f \in MutFaults :
                    Handle("create_alert", auth.user.id,
                           IF f.primary = "commit_fails" THEN NoId
                           ELSE Len(alerts) + 1,
                           create_alert(auth.user, alert_data, f), f)

GetAuditLogs ==
    /\ CanServe
    /\ \E token \in Tokens :
        LET auth == require_admin(token)
        IN  IF auth.code # HTTP_200_OK
            THEN Denied("get_audit_logs", auth.code)
            ELSE \E action \in {NULL, "", "LOGIN", "BOGUS"},
                    f \in ViewFaults \cup {NoFault} :
                 \E db \in AuditLogQueries(DefaultPage, DefaultPageSize,
                                           action, NULL, NoId) :
                    HandleArg("get_audit_logs", auth.user.id, NoId,
                              [action |-> action, resource_type |-> NULL,
                               admin_id |-> NoId, page |-> DefaultPage,
                               page_size |-> DefaultPageSize],
                              get_audit_logs(auth.user, DefaultPage,
                                             DefaultPageSize, action, NULL,
                                             NoId, db, f), f)

GetAuditStats ==
    /\ CanServe
    /\ \E token \in Tokens :
        LET auth == require_admin(token)
        IN  IF auth.code # HTTP_200_OK
            THEN Denied("get_audit_stats", auth.code)
            ELSE \E f \in ViewFaults, db \in AuditStatsQuery(DefaultDays) :
                    HandleArg("get_audit_stats", auth.user.id, NoId,
                              DefaultDays,
                              get_audit_stats(auth.user, DefaultDays, db, f),
                              f)

GetAllSosAlerts ==
    /\ CanServe
    /\ \E token \in Tokens :
        LET auth == require_admin(token)
        IN  IF auth.code # HTTP_200_OK
            THEN Denied("get_all_sos_alerts", auth.code)
            ELSE \E status_filter \in {NULL, "", "SAFE", "BOGUS"},
                    f \in ViewFaults \cup {NoFault} :
                    HandleArg("get_all_sos_alerts", auth.user.id, NoId,
                              status_filter,
                              get_all_sos_alerts(auth.user, status_filter, f),
                              f)

ResolveSos ==
    /\ CanServe
    /\ \E token \in Tokens :
        LET auth == require_admin(token)
        IN  IF auth.code # HTTP_200_OK THEN Denied("resolve_sos", auth.code)
            ELSE \E sos_id \in SosIds,
                    f \in {g \in MutFaults : ~g.az1} \cup {NoFault} :
                    Handle("resolve_sos", auth.user.id, sos_id,
                           resolve_sos(auth.user, sos_id, f), f)

GetSosStats ==
    /\ CanServe
    /\ \E token \in Tokens :
        LET auth == require_admin(token)
        IN  IF auth.code # HTTP_200_OK
            THEN Denied("get_sos_stats", auth.code)
            ELSE \E f \in ViewFaults :
                    Handle("get_sos_stats", auth.user.id, NoId,
                           get_sos_stats(auth.user, f), f)

GetMapData ==
    /\ CanServe
    /\ \E token \in Tokens :
        LET auth == require_admin(token)
        IN  IF auth.code # HTTP_200_OK THEN Denied("get_map_data", auth.code)
            ELSE \E f \in ViewFaults :
                    Handle("get_map_data", auth.user.id, NoId,
                           get_map_data(auth.user, f), f)

SendSos ==
    /\ CanServe
    /\ \E token \in Tokens \cup {NoToken},
       sos_data \in [status : {"NEED_HELP"}],
       f \in SosFaults :
        LET current_user == optional_user(token)
        IN  Handle("send_sos", current_user.id,
                   IF f.primary = "commit_fails" THEN NoId
                   ELSE Len(sos_alerts) + 1,
                   create_sos_alert(sos_data, current_user, f), f)

Next ==
    \/ Register
    \/ Login
    \/ Logout
    \/ GetAllUsers
    \/ GetAllIncidents
    \/ VerifyIncident
    \/ ResolveIncident
    \/ UpdateIncident
    \/ CreateAlert
    \/ GetAuditLogs
    \/ GetAuditStats
    \/ GetAllSosAlerts
    \/ ResolveSos
    \/ GetSosStats
    \/ GetMapData
    \/ SendSos

Spec == Init /\ [][Next]_vars

(* ------------------------------------------------ the audit queries alone *)
\* The queries of AuditService applied to ledgers that were written earlier:
\* two admins, the row kinds the routes write, stamps that may coincide.
SampleAdmins ==
    <<User(1, "admin@sensesafe.com", "ADMIN", "pw1"),
      User(2, "user@example.org", "ADMIN", "pw2")>>

SampleKinds ==
    {[admin |-> 1, action |-> "VERIFY_INCIDENT", resource_type |-> "INCIDENT",
      resource_id |-> 1],
     [admin |-> 1, action |-> "RESOLVE_INCIDENT", resource_type |-> "INCIDENT",
      resource_id |-> 2],
     [admin |-> 2, action |-> "RESOLVE_INCIDENT", resource_type |-> "SOS",
      resource_id |-> 1],
     [admin |-> 2, action |-> "LOGIN", resource_type |-> "AUTH",
      resource_id |-> NoId]}

SampleLedgers(n) ==
    {[i \in 1..n |->
         AuditLog(i, SampleAdmins[g[i][1].admin], g[i][1].action,
                  g[i][1].resource_type, g[i][1].resource_id,
                  EmptyDetails, TRUE, NULL, g[i][2])] :
       g \in [1..n -> SampleKinds \X (1..MaxRows)]}

\* Ledgers of view rows as long as, and one longer than, the page the route
\* counts its total on.
LongLedgers ==
    {[i \in 1..n |->
         AuditLog(i, SampleAdmins[1], "VIEW_INCIDENTS", "AUDIT_LOG", NoId,
                  ViewDetails, TRUE, NULL, i)] :
       n \in {TotalPageSize, TotalPageSize + 1}}

QueryInit ==
    /\ users = SampleAdmins
    /\ incidents = [i \in {1} |-> [status |-> "PENDING"]]
    /\ sos_alerts = <<>>
    /\ messages = <<>>
    /\ alerts = <<>>
    /\ \/ \E n \in 0..MaxRows : ledger \in SampleLedgers(n)
       \/ ledger \in LongLedgers
    /\ azure_configured = FALSE
    /\ resp = NoResp
    /\ env = NoFault
    /\ tr = <<>>
    /\ served = 0
    /\ inflight = NoneInFlight

\* AuditService.get_audit_logs was called with query q and returned result.
Answer(q, result) ==
    /\ resp' = [NoResp EXCEPT
                   !.op = "AuditService.get_audit_logs",
                   !.arg = q,
                   !.ledger_before = Len(ledger),
                   !.body = [total |-> Len(result),
                             items |-> [i \in 1..Len(result) |->
                                           result[i].id]]]
    /\ UNCHANGED <<users, incidents, sos_alerts, messages, alerts, ledger,
                   azure_configured, env, tr, served, inflight>>

\* One call with any combination of filters and a page that holds all rows.
ListAuditLogs ==
    /\ resp = NoResp
    /\ Len(ledger) <= MaxRows
    /\ \E admin_id \in {NoId, 1}, action \in {NULL, "RESOLVE_INCIDENT"},
          resource_type \in {NULL, "", "INCIDENT"}, resource_id \in {NoId, 1},
          start_date \in {NoDate, 2}, end_date \in {NoDate, 2} :
        \E result \in AuditService_get_audit_logs(ledger, admin_id, action,
                          resource_type, resource_id, start_date, end_date,
                          DefaultPage, TotalPageSize) :
            Answer([admin_id |-> admin_id, action |-> action,
                    resource_type |-> resource_type,
                    resource_id |-> resource_id, start_date |-> start_date,
                    end_date |-> end_date, page |-> DefaultPage,
                    page_size |-> TotalPageSize], result)

\* One call for one page.
PageAuditLogs ==
    /\ resp = NoResp
    /\ Len(ledger) <= MaxRows
    /\ \E action \in {NULL, "RESOLVE_INCIDENT"}, page \in 1..(MaxRows + 1),
          page_size \in 1..MaxRows :
        \E result \in AuditService_get_audit_logs(ledger, NoId, action, NULL,
                          NoId, NoDate, NoDate, page, page_size) :
            Answer([admin_id |-> NoId, action |-> action,
                    resource_type |-> NULL, resource_id |-> NoId,
                    start_date |-> NoDate, end_date |-> NoDate,
                    page |-> page, page_size |-> page_size], result)

\* GET /audit-logs by the first admin with filters, page and page size.
GetAuditLogsPaged ==
    /\ resp = NoResp
    /\ \E action \in {NULL, "RESOLVE_INCIDENT", "VIEW_INCIDENTS"},
          resource_type \in {NULL, "INCIDENT"}, admin_id \in {NoId, 1},
          page \in {DefaultPage, DefaultPage + 1},
          page_size \in {1, DefaultPageSize},
          f \in {g \in ViewFaults : g.audit = "ok"} :
        \E db \in AuditLogQueries(page, page_size, action, resource_type,
                                  admin_id) :
            HandleArg("get_audit_logs", SampleAdmins[1].id, NoId,
                      [action |-> action, resource_type |-> resource_type,
                       admin_id |-> admin_id, page |-> page,
                       page_size |-> page_size],
                      get_audit_logs(SampleAdmins[1], page, page_size, action,
                                     resource_type, admin_id, db, f), f)

QueryNext ==
    \/ ListAuditLogs
    \/ PageAuditLogs
    \/ GetAuditLogsPaged

QuerySpec == QueryInit /\ [][QueryNext]_vars

(* --------------------------------------------- the audit statistics alone *)
\* AuditService.get_audit_stats applied to ledgers that were written earlier,
\* one row per tick of the clock: two actor ids, two actor emails in every
\* combination (an actor whose email changed, an email that passed from one
\* actor to another), successful and failed actions.
StatKinds ==
    [admin_id : {1, 2}, admin_email : Emails,
     event : {[action |-> "RESOLVE_INCIDENT", resource_type |-> "INCIDENT",
               resource_id |-> 1, success |-> TRUE, error_message |-> NULL],
              [action |-> "LOGIN", resource_type |-> "AUTH",
               resource_id |-> NoId, success |-> TRUE, error_message |-> NULL],
              [action |-> "FAILED_LOGIN", resource_type |-> "AUTH",
               resource_id |-> NoId, success |-> FALSE,
               error_message |-> "Invalid password"]}]

StatLedgers(n) ==
    {[i \in 1..n |->
         AuditLog(i, [id |-> g[i].admin_id, email |-> g[i].admin_email],
                  g[i].event.action, g[i].event.resource_type,
                  g[i].event.resource_id, EmptyDetails, g[i].event.success,
                  g[i].event.error_message, i)] :
       g \in [1..n -> StatKinds]}

StatsInit ==
    /\ users = SampleAdmins
    /\ incidents = [i \in {1} |-> [status |-> "PENDING"]]
    /\ sos_alerts = <<>>
    /\ messages = <<>>
    /\ alerts = <<>>
    /\ \E n \in 0..MaxRows : ledger \in StatLedgers(n)
    /\ azure_configured = FALSE
    /\ resp = NoResp
    /\ env = NoFault
    /\ tr = <<>>
    /\ served = 0
    /\ inflight = NoneInFlight

\* One call of AuditService.get_audit_stats with each end of the window given
\* or left out.
StatAuditLogs ==
    /\ resp = NoResp
    /\ \E start_date \in {NoDate} \cup 1..MaxRows,
          end_date \in {NoDate} \cup 1..MaxRows :
        \E stats \in AuditService_get_audit_stats(ledger, start_date,
                                                  end_date) :
            resp' = [NoResp EXCEPT
                        !.op = "AuditService.get_audit_stats",
                        !.arg = [start_date |-> start_date,
                                 end_date |-> end_date],
                        !.ledger_before = Len(ledger),
                        !.body = stats]
    /\ UNCHANGED <<users, incidents, sos_alerts, messages, alerts, ledger,
                   azure_configured, env, tr, served, inflight>>

\* GET /audit-logs/stats by the first admin over the last day or week.
GetAuditStatsOf ==
    /\ resp = NoResp
    /\ \E days \in {1, DefaultDays},
          f \in {g \in ViewFaults : g.audit = "ok"} :
        \E db \in AuditStatsQuery(days) :
            HandleArg("get_audit_stats", SampleAdmins[1].id, NoId, days,
                      get_audit_stats(SampleAdmins[1], days, db, f), f)

StatsNext ==
    \/ StatAuditLogs
    \/ GetAuditStatsOf

StatsSpec == StatsInit /\ [][StatsNext]_vars

(* ------------------------------------- incident routes, statement by statement *)
\* Two workers handle one request each on the incidents table.  A request
\* takes three steps, between which the other worker may run: it loads the
\* incident and notes its status; it assigns the new status and commits; it
\* calls log_incident_action.
IncidentRoutes == {"verify_incident", "resolve_incident", "update_incident"}

\* The status the route assigns (update_incident: the one sent, if any) and
\* the action it audits.
NewStatus(op, update_status) ==
    CASE op = "verify_incident" -> "VERIFIED"
      [] op = "resolve_incident" -> "RESOLVED"
      [] OTHER -> update_status

IncidentAction(op) ==
    CASE op = "verify_incident" -> "VERIFY_INCIDENT"
      [] op = "resolve_incident" -> "RESOLVE_INCIDENT"
      [] OTHER -> "UPDATE_INCIDENT"

ConcInit ==
    /\ users = SampleAdmins
    /\ \E st \in IncidentStatus : incidents = [i \in {1} |-> [status |-> st]]
    /\ sos_alerts = <<>>
    /\ messages = <<>>
    /\ alerts = <<>>
    /\ ledger = <<>>
    /\ azure_configured = FALSE
    /\ resp = NoResp
    /\ env = NoFault
    /\ tr = <<>>
    /\ served = 0
    /\ inflight = NoneInFlight

\* incident = db.query(Incident)...first(); 404 when there is none;
\* previous_status = incident.status.value.
FindIncident ==
    \E w \in Workers, op \in IncidentRoutes, admin_id \in 1..Len(users),
       incident_id \in IncidentIds, update_status \in {NULL, "RESOLVED"} :
        /\ inflight[w].pc = "idle"
        /\ op # "update_incident" => update_status = NULL
        /\ inflight' =
              [inflight EXCEPT ![w] =
                  IF incident_id \notin DOMAIN incidents
                  THEN [Idle EXCEPT !.pc = "not_found", !.op = op,
                                    !.admin_id = admin_id,
                                    !.incident_id = incident_id]
                  ELSE [Idle EXCEPT
                           !.pc = "found", !.op = op, !.admin_id = admin_id,
                           !.incident_id = incident_id,
                           !.new_status = NewStatus(op, update_status),
                           !.previous_status =
                               incidents[incident_id].status]]
        /\ UNCHANGED <<users, incidents, sos_alerts, messages, alerts,
                       ledger, azure_configured, resp, env, tr, served>>

\* incident.status = ...; db.commit(); db.refresh(incident).  The session
\* writes the column only if the value assigned differs from the one it
\* loaded.  before and after note the status the row held just before and
\* just after the commit.
CommitIncidentBy(w) ==
    LET r == inflight[w]
        written ==
            IF r.new_status # NULL /\ r.new_status # r.previous_status
            THEN [incidents EXCEPT ![r.incident_id].status = r.new_status]
            ELSE incidents
    IN  /\ r.pc = "found"
        /\ incidents' = written
        /\ inflight' = [inflight EXCEPT
                           ![w].pc = "committed",
                           ![w].before = incidents[r.incident_id].status,
                           ![w].after = written[r.incident_id].status]
        /\ UNCHANGED <<users, sos_alerts, messages, alerts, ledger,
                       azure_configured, resp, env, tr, served>>

CommitIncident == \E w \in Workers : CommitIncidentBy(w)

\* db.commit() raises: the request ends with nothing written.
CommitIncidentFails ==
    \E w \in Workers :
        /\ inflight[w].pc = "found"
        /\ inflight' = [inflight EXCEPT ![w].pc = "failed"]
        /\ UNCHANGED <<users, incidents, sos_alerts, messages, alerts,
                       ledger, azure_configured, resp, env, tr, served>>

\* log_incident_action(..., previous_status=previous_status, new_status=...)
\* with the audit commit succeeding or failing.
AuditIncidentBy(w, audit) ==
    LET r == inflight[w]
        c == log_incident_action(Ctx(ledger, <<>>), users[r.admin_id],
                                 IncidentAction(r.op), r.incident_id,
                                 r.previous_status, r.new_status, TRUE, NULL,
                                 [NoFault EXCEPT !.audit = audit])
    IN  /\ r.pc = "committed"
        /\ ledger' = c.ledger
        /\ tr' = c.tr
        /\ inflight' = [inflight EXCEPT
                           ![w].pc = IF c.exc = "none" THEN "done"
                                     ELSE "failed",
                           ![w].row = c.ret]
        /\ UNCHANGED <<users, incidents, sos_alerts, messages, alerts,
                       azure_configured, resp, env, served>>

AuditIncident ==
    \E w \in Workers, audit \in {"ok", "commit_fails"} :
        AuditIncidentBy(w, audit)

ConcNext ==
    \/ FindIncident
    \/ CommitIncident
    \/ CommitIncidentFails
    \/ AuditIncident

ConcSpec == ConcInit /\ [][ConcNext]_vars

(* ------------------------------------------------------------------- claims *)
\* What the request handled last did to the ledger and what it emitted.
Grew(n) == Len(ledger) = resp.ledger_before + n

Last == ledger[Len(ledger)]

Emitted(sink) == {i \in 1..Len(tr) : tr[i].sink = sink}

EmittedNamed(sink, name) == {i \in Emitted(sink) : tr[i].name = name}

AdminMutations ==
    {"verify_incident", "resolve_incident", "update_incident", "create_alert",
     "resolve_sos"}

OrchestratorCallers ==
    {"verify_incident", "resolve_incident", "update_incident", "create_alert",
     "register_user", "login_user", "logout_user"}

Success == {HTTP_200_OK, HTTP_201_CREATED}

\* The primary entity of the last admin mutation holds its new state.
NewStateCommitted ==
    CASE resp.op = "verify_incident" ->
            incidents[resp.target].status = "VERIFIED"
      [] resp.op = "resolve_incident" ->
            incidents[resp.target].status = "RESOLVED"
      [] resp.op = "update_incident" ->
            resp.arg = NULL \/ incidents[resp.target].status = resp.arg
      [] resp.op = "create_alert" -> resp.target \in 1..Len(alerts)
      [] resp.op = "resolve_sos" -> sos_alerts[resp.target].status = "SAFE"
      [] OTHER -> TRUE

AuditPersistenceFailed == env.audit \in {"commit_fails", "refresh_fails"}

\* C1: an admin state-changing route whose audit persistence fails after its
\* own mutation committed still answers with success and keeps the new state.
C1_NonBlockingAudit ==
    (resp.op \in AdminMutations /\ env.primary = "ok" /\ AuditPersistenceFailed)
        => (resp.code \in Success /\ NewStateCommitted)

\* C2: no persistence exception leaves log_incident_action, log_alert_action
\* or log_auth_action: the handler that called one of them sees none.
C2_OrchestratorNeverRaises ==
    resp.op \in OrchestratorCallers => resp.audit_exc # "SQLAlchemyError"

\* C3: every step keeps all rows of the ledger, in place and unchanged, and
\* adds exactly the rows whose commit the request performed; a request that
\* only read (or whose write failed) leaves the ledger as it was.
C3_AppendOnly ==
    [][/\ Len(ledger') >= Len(ledger)
       /\ SubSeq(ledger', 1, Len(ledger)) = ledger
       /\ Len(ledger') = Len(ledger)
                          + Cardinality({i \in 1..Len(tr') :
                                            tr'[i].sink = "ledger"})]_vars

C3_Witness ==
    /\ resp.op = "get_audit_logs"
    /\ resp.code = HTTP_200_OK
    /\ resp.body.total = 1
    /\ resp.ledger_before = 1
    /\ Len(ledger) = 2

\* C4: a successful login or registration appends exactly one row with
\* action LOGIN, resource_type AUTH, success true and the user as actor.
C4_LoginAudited ==
    (\/ resp.op = "login_user" /\ resp.code = HTTP_200_OK
     \/ resp.op = "register_user" /\ resp.code = HTTP_201_CREATED)
        => /\ Grew(1)
           /\ Last.action = "LOGIN"
           /\ Last.resource_type = "AUTH"
           /\ Last.success = 1
           /\ Last.admin_id = resp.actor

\* C5: an admin mutation that found its resource and met no persistence
\* failure appends exactly one row, by the calling admin, on the affected
\* entity; no admin mutation appends more than one row.
C5_OneRecordPerAction ==
    resp.op \in AdminMutations =>
        /\ Len(ledger) <= resp.ledger_before + 1
        /\ (env.primary = "ok" /\ env.audit = "ok") =>
              /\ Grew(1)
              /\ Last.admin_id = resp.actor
              /\ Last.admin_id # NoId
              /\ Last.resource_id = resp.target
              /\ Last.resource_id # NoId

C5_Witness ==
    /\ resp.op = "resolve_sos"
    /\ env.primary = "ok"
    /\ env.audit = "ok"
    /\ Grew(1)

WrongPassword ==
    resp.op = "login_user" /\ resp.code = HTTP_401_UNAUTHORIZED
    /\ resp.actor # NoId

LoggedOut == resp.op = "logout_user" /\ resp.code = HTTP_200_OK

FailedLoginRow ==
    /\ Grew(1)
    /\ Last.action = "FAILED_LOGIN"
    /\ Last.success = 0
    /\ Last.error_message = "Invalid password"
    /\ Last.resource_type = "AUTH"
    /\ Last.resource_id = NoId
    /\ Last.admin_id = resp.actor

LogoutRow ==
    /\ Grew(1)
    /\ Last.action = "LOGOUT"
    /\ Last.success = 1
    /\ Last.error_message = NULL
    /\ Last.resource_type = "AUTH"
    /\ Last.resource_id = NoId
    /\ Last.admin_id = resp.actor

\* C6 as stated: a wrong-password login appends exactly one FAILED_LOGIN row
\* and a logout exactly one LOGOUT row, whatever else happens.
C6_AuthEventsAudited ==
    /\ WrongPassword => FailedLoginRow
    /\ LoggedOut => LogoutRow

\* C6 amended: they do so unless the commit of the audit row fails; then no
\* row is appended and the response is the same.
C6_AuthEventsAuditedUnlessCommitFails ==
    /\ (WrongPassword /\ env.audit # "commit_fails") => FailedLoginRow
    /\ (LoggedOut /\ env.audit # "commit_fails") => LogoutRow
    /\ ((WrongPassword \/ LoggedOut) /\ env.audit = "commit_fails") => Grew(0)

C6_Witness == WrongPassword /\ env.audit = "ok" /\ Grew(1)

UnknownEmail ==
    resp.op = "login_user" /\ resp.code = HTTP_401_UNAUTHORIZED
    /\ resp.actor = NoId

\* C7: log_auth_action without a resolved actor raises nothing, returns
\* None, leaves the ledger alone and hands exactly one security event to the
\* sink reporter; every ledger row has an actor id and an actor email.
C7_ActorRequired ==
    /\ UnknownEmail =>
          /\ resp.audit_exc = "none"
          /\ resp.audit_ret = NoId
          /\ Grew(0)
          /\ Emitted("ledger") = {}
          /\ Cardinality(Emitted("azure")) = 1
          /\ \A i \in Emitted("azure") :
                /\ tr[i].name = "SecurityEvent"
                /\ tr[i].action = "FAILED_LOGIN"
                /\ tr[i].admin_id = NoId
                /\ tr[i].admin_email = resp.arg.email
                /\ tr[i].ok = (azure_configured /\ ~env.az1)
    /\ \A i \in 1..Len(ledger) :
          ledger[i].admin_id # NoId /\ ledger[i].admin_email # NULL

C7_Witness == UnknownEmail /\ Cardinality(Emitted("azure")) = 1

\* C8: a failed login against an unknown email is emitted to the secondary
\* sink and as one structured-log line.
C8_UnknownLoginLogged ==
    UnknownEmail =>
        /\ Cardinality(Emitted("azure")) = 1
        /\ Cardinality(Emitted("admin_logger")) = 1

LogActionReturned == resp.audit_ret # NoId

ReturnedRowPersisted ==
    /\ resp.audit_ret \in 1..Len(ledger)
    /\ ledger[resp.audit_ret].id = resp.audit_ret
    /\ resp.audit_ret > resp.ledger_before

NothingEmitted ==
    /\ Emitted("admin_logger") = {}
    /\ EmittedNamed("azure", "AdminAction") = {}

\* C9 as stated: the row log_action returns is in the ledger; when the
\* persistence step (add, commit, refresh) fails, log_action raises, the
\* ledger is unchanged and neither the log line nor the AdminAction event
\* was emitted.
C9_Durability ==
    /\ LogActionReturned => ReturnedRowPersisted
    /\ AuditPersistenceFailed =>
          /\ resp.audit_exc = "SQLAlchemyError"
          /\ Grew(0)
          /\ NothingEmitted

\* C9 amended: the ledger is unchanged when the commit fails; when the
\* read-back fails after the commit, log_action raises and emits nothing as
\* well, but the row it committed is in the ledger.
C9_DurabilityCommit ==
    /\ LogActionReturned => ReturnedRowPersisted
    /\ AuditPersistenceFailed =>
          /\ resp.audit_exc = "SQLAlchemyError"
          /\ resp.audit_ret = NoId
          /\ NothingEmitted
    /\ env.audit = "commit_fails" => Grew(0)
    /\ env.audit = "refresh_fails" => Grew(1)

C9_Witness ==
    /\ env.audit = "commit_fails"
    /\ resp.audit_exc = "SQLAlchemyError"
    /\ resp.op = "get_all_users"

\* The failure injected into the sink call that produced effect i.
SinkFault(i) == IF tr[i].name = "AdminAction" THEN env.az2 ELSE env.az1

\* C10: a failing or unconfigured sink never raises and never prevents the
\* ledger write: when the audit persistence succeeds the row is written and
\* returned whatever the sink did, and log_to_azure answers False exactly
\* when it is not configured or the client raised.
C10_SinkBestEffort ==
    /\ env.audit = "ok" =>
          /\ Grew(1)
          /\ resp.audit_exc = "none"
          /\ resp.audit_ret = Len(ledger)
          /\ Cardinality(EmittedNamed("azure", "AdminAction")) = 1
    /\ UnknownEmail => resp.audit_exc = "none"
    /\ \A i \in Emitted("azure") :
          tr[i].ok = (azure_configured /\ ~SinkFault(i))

C10_Witness ==
    /\ azure_configured
    /\ env.az1
    /\ env.az2
    /\ env.audit = "ok"
    /\ Grew(1)
    /\ resp.code \in Success

\* C11: in a request that went through an orchestrator, every event handed
\* to the secondary sink comes after the commit of the ledger row, and no
\* event was delivered when the commit of the row failed.
C11_LedgerBeforeSink ==
    resp.op \in OrchestratorCallers =>
        /\ \A i \in Emitted("azure") : \E j \in Emitted("ledger") : j < i
        /\ env.audit = "commit_fails" =>
              \A i \in Emitted("azure") : ~tr[i].ok

\* The log line or sink event e carries the fields of ledger row r.
Mirrors(e, r) ==
    /\ e.admin_id = r.admin_id
    /\ e.admin_email = r.admin_email
    /\ e.action = r.action
    /\ e.resource_type = r.resource_type
    /\ e.resource_id = r.resource_id
    /\ e.success = (r.success = 1)
    /\ e.error_message = r.error_message

\* C12: inside log_action the commit and read-back come first, then exactly
\* one structured-log line with the row's fields, then the AdminAction
\* forward; neither is emitted before the commit, nor when the read-back
\* fails.
C12_SideEffectOrder ==
    LET commits == Emitted("ledger")
        lines == Emitted("admin_logger")
        forwards == EmittedNamed("azure", "AdminAction")
    IN  /\ \A i \in lines \cup forwards : \E j \in commits : j < i
        /\ \A i \in lines : \A k \in forwards : i < k
        /\ env.audit = "ok" =>
              /\ Cardinality(commits) = 1
              /\ Cardinality(lines) = 1
              /\ Cardinality(forwards) = 1
              /\ \A i \in lines \cup forwards : Mirrors(tr[i], Last)
        /\ env.audit \in {"commit_fails", "refresh_fails"} =>
              lines = {} /\ forwards = {}

C12_Witness ==
    /\ resp.op = "verify_incident"
    /\ env.audit = "ok"
    /\ azure_configured
    /\ env.az2
    /\ ~env.az1
    /\ Cardinality(Emitted("admin_logger")) = 1

\* The same environment with nothing going wrong inside the audit call.
AuditUntroubled(f) == [f EXCEPT !.audit = "ok", !.az1 = FALSE, !.az2 = FALSE]

\* C13: every login, logout and registration gives the response, and leaves
\* the users table, that the same request would have given in the same state
\* had nothing gone wrong inside its audit call (its persistence outcome,
\* the sink's behaviour); hence any two runs that differ only there agree.
C13_AuthIgnoresAudit ==
    [][/\ resp'.op = "login_user" =>
           LET r == login_user(resp'.arg, AuditUntroubled(env'))
           IN  resp'.code = r.code /\ users' = r.users
       /\ resp'.op = "logout_user" /\ resp'.actor # NoId =>
           LET r == logout_user(UserById(resp'.actor), AuditUntroubled(env'))
           IN  resp'.code = r.code /\ users' = r.users
       /\ resp'.op = "register_user" =>
           LET r == register_user(resp'.arg, AuditUntroubled(env'))
           IN  resp'.code = r.code /\ users' = r.users]_vars

C13_Witness ==
    /\ resp.op = "logout_user"
    /\ env.audit = "commit_fails"
    /\ resp.audit_exc = "SQLAlchemyError"
    /\ resp.code = HTTP_200_OK

\* C14: an admin mutation audits only after its own commit: whatever it
\* emitted or appended, its mutation was committed before; when its commit
\* fails the request fails, nothing is emitted or appended, and no entity
\* changes.
C14_AuditAfterCommit ==
    [][resp'.op \in AdminMutations =>
          /\ (tr' # <<>> \/ ledger' # ledger) =>
                env'.primary = "ok" /\ NewStateCommitted'
          /\ env'.primary = "commit_fails" =>
                /\ resp'.code = HTTP_500_INTERNAL_SERVER_ERROR
                /\ tr' = <<>>
                /\ ledger' = ledger
                /\ incidents' = incidents
                /\ sos_alerts' = sos_alerts
                /\ alerts' = alerts]_vars

C14_Witness ==
    /\ resp.op = "create_alert"
    /\ env.primary = "commit_fails"
    /\ resp.code = HTTP_500_INTERNAL_SERVER_ERROR
    /\ alerts = <<>>

\* C15: verify_incident, resolve_incident, update_incident and resolve_sos
\* called by an admin with an id of no entity answer 404, change no table,
\* append nothing and emit nothing.
C15_NotFoundNoTrace ==
    [][(/\ resp'.actor # NoId
        /\ \/ /\ resp'.op \in {"verify_incident", "resolve_incident",
                               "update_incident"}
              /\ resp'.target \notin DOMAIN incidents
           \/ /\ resp'.op = "resolve_sos"
              /\ resp'.target \notin DOMAIN sos_alerts)
          => /\ resp'.code = HTTP_404_NOT_FOUND
             /\ tr' = <<>>
             /\ UNCHANGED <<users, incidents, sos_alerts, messages, alerts,
                            ledger>>]_vars

C15_Witness ==
    /\ resp.op = "resolve_sos"
    /\ resp.actor # NoId
    /\ resp.code = HTTP_404_NOT_FOUND
    /\ resp.target \notin DOMAIN sos_alerts

FilterRoutes == {"get_audit_logs", "get_all_incidents", "get_all_sos_alerts"}

\* The enum filter the last list request carried, and the names it accepts.
FilterSent == IF resp.op = "get_audit_logs" THEN resp.arg.action ELSE resp.arg

FilterNames ==
    CASE resp.op = "get_audit_logs" -> AuditAction
      [] resp.op = "get_all_incidents" -> IncidentStatus
      [] resp.op = "get_all_sos_alerts" -> SOSStatus

Rejected ==
    /\ resp.code = HTTP_400_BAD_REQUEST
    /\ Grew(0)
    /\ tr = <<>>

\* C16 as stated: a list request whose enum filter is not a member name is
\* answered 400 and appends nothing.
C16_ValidationNoLedger ==
    (/\ resp.op \in FilterRoutes
     /\ resp.actor # NoId
     /\ FilterSent # NULL
     /\ FilterSent \notin FilterNames) => Rejected

\* C16 amended: so is every request whose filter is a non-empty string that
\* is not a member name; an empty filter is taken as no filter, so that
\* request is served and audited like an unfiltered one.
C16_ValidationNonEmpty ==
    (resp.op \in FilterRoutes /\ resp.actor # NoId) =>
        /\ (GivenStr(FilterSent) /\ FilterSent \notin FilterNames) => Rejected
        /\ FilterSent = "" =>
              /\ resp.code # HTTP_400_BAD_REQUEST
              /\ env.audit = "ok" => Grew(1) /\ resp.code = HTTP_200_OK

C16_Witness ==
    /\ resp.op = "get_all_incidents"
    /\ resp.actor # NoId
    /\ resp.arg = "BOGUS"
    /\ resp.code = HTTP_400_BAD_REQUEST
    /\ Len(ledger) = 1

Listed == resp.op = "AuditService.get_audit_logs"

ItemIds == {resp.body.items[i] : i \in 1..Len(resp.body.items)}

NoRepeats == Cardinality(ItemIds) = Len(resp.body.items)

\* Row r satisfies every filter of the last query that is not None.
SatisfiesSupplied(r) ==
    /\ resp.arg.admin_id # NoId => r.admin_id = resp.arg.admin_id
    /\ resp.arg.action # NULL => r.action = resp.arg.action
    /\ resp.arg.resource_type # NULL =>
          r.resource_type = resp.arg.resource_type
    /\ resp.arg.resource_id # NoId => r.resource_id = resp.arg.resource_id
    /\ resp.arg.start_date # NoDate => r.created_at >= resp.arg.start_date
    /\ resp.arg.end_date # NoDate => r.created_at <= resp.arg.end_date

\* The same, with an empty resource_type counted as absent.
SatisfiesNonEmpty(r) ==
    /\ resp.arg.admin_id # NoId => r.admin_id = resp.arg.admin_id
    /\ resp.arg.action # NULL => r.action = resp.arg.action
    /\ resp.arg.resource_type \notin {NULL, ""} =>
          r.resource_type = resp.arg.resource_type
    /\ resp.arg.resource_id # NoId => r.resource_id = resp.arg.resource_id
    /\ resp.arg.start_date # NoDate => r.created_at >= resp.arg.start_date
    /\ resp.arg.end_date # NoDate => r.created_at <= resp.arg.end_date

WholeListing == Listed /\ resp.arg.page_size = TotalPageSize

\* C17 as stated: with a page that holds every match, get_audit_logs returns
\* exactly the rows that satisfy every filter that was passed, each once.
C17_FilterConjunction ==
    WholeListing =>
        /\ NoRepeats
        /\ ItemIds = {i \in 1..Len(ledger) : SatisfiesSupplied(ledger[i])}

\* C17 amended: exactly the rows that satisfy every filter that is neither
\* None nor the empty string.
C17_FilterConjunctionNonEmpty ==
    WholeListing =>
        /\ NoRepeats
        /\ ItemIds = {i \in 1..Len(ledger) : SatisfiesNonEmpty(ledger[i])}

C17_Witness ==
    /\ WholeListing
    /\ resp.arg.admin_id = 1
    /\ resp.arg.action = "RESOLVE_INCIDENT"
    /\ resp.arg.resource_type = NULL
    /\ resp.arg.resource_id = NoId
    /\ resp.arg.start_date = NoDate
    /\ resp.arg.end_date = NoDate
    /\ Len(ledger) = 3
    /\ ledger[1].action = "VERIFY_INCIDENT" /\ ledger[1].admin_id = 1
    /\ ledger[2].action = "RESOLVE_INCIDENT" /\ ledger[2].admin_id = 1
    /\ ledger[3].action = "RESOLVE_INCIDENT" /\ ledger[3].admin_id = 2
    /\ resp.body.items = <<2>>

\* The ids of the rows the last query matches, and whether their stamps are
\* pairwise distinct.
Matched == {i \in 1..Len(ledger) : SatisfiesNonEmpty(ledger[i])}

DistinctStamps ==
    \A i, k \in Matched :
        ledger[i].created_at = ledger[k].created_at => i = k

\* The matched row of descending rank k (rank 1 is the newest).
Ranked(k) ==
    CHOOSE i \in Matched :
        Cardinality({m \in Matched :
                        ledger[m].created_at > ledger[i].created_at}) = k - 1

\* The result of the last query's listing for page p (the only one, when
\* the stamps are distinct).
PageOf(p) ==
    CHOOSE result \in AuditService_get_audit_logs(ledger, resp.arg.admin_id,
                          resp.arg.action, resp.arg.resource_type,
                          resp.arg.resource_id, resp.arg.start_date,
                          resp.arg.end_date, p, resp.arg.page_size) : TRUE

\* C18: with N matching rows of distinct stamps, page p of size s holds the
\* rows ranked (p-1)*s+1 .. min(p*s, N) in descending stamp order, nothing
\* when the offset reaches N; every rank lies on exactly one page, at its
\* place, and the pages together hold N rows.
C18_Pagination ==
    (Listed /\ DistinctStamps) =>
        LET N == Cardinality(Matched)
            s == resp.arg.page_size
            offset == (resp.arg.page - 1) * s
            upto == IF resp.arg.page * s < N THEN resp.arg.page * s ELSE N
            pages == 1..(MaxRows + 1)
        IN  /\ Len(resp.body.items) = (IF offset >= N THEN 0 ELSE upto - offset)
            /\ \A k \in 1..Len(resp.body.items) :
                  resp.body.items[k] = Ranked(offset + k)
            /\ \A k \in 1..N :
                  LET p == ((k - 1) \div s) + 1
                      at == ((k - 1) % s) + 1
                  IN  /\ p \in pages
                      /\ Len(PageOf(p)) >= at
                      /\ PageOf(p)[at].id = Ranked(k)
                      /\ \A o \in pages \ {p} :
                            \A j \in 1..Len(PageOf(o)) :
                                PageOf(o)[j].id # Ranked(k)

C18_Witness ==
    /\ Listed
    /\ DistinctStamps
    /\ Len(ledger) = 3
    /\ resp.arg.action = NULL
    /\ resp.arg.page = 2
    /\ resp.arg.page_size = 2
    /\ ledger[1].created_at = 2
    /\ ledger[2].created_at = 3
    /\ ledger[3].created_at = 1
    /\ resp.body.items = <<3>>

\* C19: rows that share a stamp are listed in insertion order (ascending or
\* descending id, the same way throughout), and the query has only one
\* possible result on a given ledger.
C19_TieOrderDeterministic ==
    Listed =>
        LET items == resp.body.items
            tied(i, k) == ledger[items[i]].created_at
                            = ledger[items[k]].created_at
            places == 1..Len(items)
        IN  /\ \/ \A i, k \in places :
                     (i < k /\ tied(i, k)) => items[i] < items[k]
               \/ \A i, k \in places :
                     (i < k /\ tied(i, k)) => items[i] > items[k]
            /\ Cardinality(
                   AuditService_get_audit_logs(ledger, resp.arg.admin_id,
                       resp.arg.action, resp.arg.resource_type,
                       resp.arg.resource_id, resp.arg.start_date,
                       resp.arg.end_date, resp.arg.page,
                       resp.arg.page_size)) = 1

\* C20: the total of a served GET /audit-logs is the number of rows of the
\* ledger (as it was when the request came) that match the request's
\* filters, whatever the page, the page size and the length of the ledger.
C20_ResponseTotal ==
    (resp.op = "get_audit_logs" /\ resp.code = HTTP_200_OK) =>
        resp.body.total =
            Cardinality({i \in 1..resp.ledger_before :
                /\ resp.arg.admin_id # NoId =>
                      ledger[i].admin_id = resp.arg.admin_id
                /\ GivenStr(resp.arg.action) =>
                      ledger[i].action = resp.arg.action
                /\ GivenStr(resp.arg.resource_type) =>
                      ledger[i].resource_type = resp.arg.resource_type})

\* AuditService.get_audit_stats was called on the ledger; resp.body is what
\* it returned and resp.arg the window it was given.
StatsAnswered == resp.op = "AuditService.get_audit_stats"

\* The records of the window, by position in the ledger.
Window ==
    {i \in 1..Len(ledger) :
        /\ resp.arg.start_date # NoDate =>
              ledger[i].created_at >= resp.arg.start_date
        /\ resp.arg.end_date # NoDate =>
              ledger[i].created_at <= resp.arg.end_date}

RECURSIVE SumOver(_, _)
SumOver(counts, keys) ==
    IF keys = {} THEN 0
    ELSE LET k == CHOOSE x \in keys : TRUE
         IN  counts[k] + SumOver(counts, keys \ {k})

\* The values of a mapping, added up.
Sum(counts) == SumOver(counts, DOMAIN counts)

ByActor(admin_id) == {i \in Window : ledger[i].admin_id = admin_id}

\* total, successful, failed and by_action are the counts of the window.
CountsRight ==
    /\ resp.body.total = Cardinality(Window)
    /\ resp.body.successful
          = Cardinality({i \in Window : ledger[i].success = 1})
    /\ resp.body.failed
          = Cardinality({i \in Window : ledger[i].success = 0})
    /\ resp.body.successful + resp.body.failed = resp.body.total
    /\ DOMAIN resp.body.by_action = {ledger[i].action : i \in Window}
    /\ \A a \in DOMAIN resp.body.by_action :
          resp.body.by_action[a]
              = Cardinality({i \in Window : ledger[i].action = a})
    /\ Sum(resp.body.by_action) = resp.body.total

\* by_admin has, under the email of each record of the window, the number
\* of window records by that record's actor.
ByAdminRight ==
    /\ DOMAIN resp.body.by_admin = {ledger[i].admin_email : i \in Window}
    /\ \A i \in Window :
          resp.body.by_admin[ledger[i].admin_email]
              = Cardinality(ByActor(ledger[i].admin_id))

\* No two actors of the window were recorded under one email.
NoSharedEmail ==
    \A i, k \in Window :
        ledger[i].admin_email = ledger[k].admin_email
            => ledger[i].admin_id = ledger[k].admin_id

\* C21 as stated: for every ledger and window the statistics are the counts
\* of the window: total, successful, failed, by_action without zero counts,
\* and by_admin with the count of every actor of the window.
C21_StatsCorrect == StatsAnswered => CountsRight /\ ByAdminRight

\* C21: for every ledger and window total, successful, failed and by_action
\* are the counts of the window, and when no two actors of the window share
\* an email by_admin has the count of every actor of the window.
C21_StatsCorrectUnlessEmailShared ==
    StatsAnswered => CountsRight /\ (NoSharedEmail => ByAdminRight)

\* A window of two of three records, one successful and one failed, by two
\* actors under their own emails.
C21_Witness ==
    /\ StatsAnswered
    /\ Len(ledger) = 3
    /\ NoSharedEmail
    /\ resp.body.total = 2
    /\ resp.body.successful = 1
    /\ resp.body.failed = 1
    /\ Cardinality(DOMAIN resp.body.by_admin) = 2
    /\ Cardinality(DOMAIN resp.body.by_action) = 2

\* In the window every actor id was recorded under one email and every email
\* for one actor id.
OneEmailPerActor ==
    \A i, k \in Window :
        ledger[i].admin_email = ledger[k].admin_email
            <=> ledger[i].admin_id = ledger[k].admin_id

ResolvedAgain ==
    /\ resp'.op = "resolve_incident"
    /\ resp'.target \in DOMAIN incidents
    /\ incidents[resp'.target].status = "RESOLVED"

\* The step answered 200, left the incident RESOLVED and appended one record
\* of the transition RESOLVED -> RESOLVED.
AuditedAgain ==
    /\ resp'.code = HTTP_200_OK
    /\ incidents'[resp'.target].status = "RESOLVED"
    /\ Len(ledger') = Len(ledger) + 1
    /\ ledger'[Len(ledger')].action = "RESOLVE_INCIDENT"
    /\ ledger'[Len(ledger')].resource_id = resp'.target
    /\ ledger'[Len(ledger')].details.previous_status = "RESOLVED"
    /\ ledger'[Len(ledger')].details.new_status = "RESOLVED"

Audited(w) == inflight[w].pc = "done"

RecordOf(w) == ledger[inflight[w].row]

\* C23: for every record written by verify_incident, resolve_incident or
\* update_incident, in every interleaving of two requests, previous_status
\* is the status the incident held just before the request's commit and
\* new_status, when the record has one, the status it held just after.
C23_TransitionMetadataFaithful ==
    \A w \in Workers :
        Audited(w) =>
            /\ RecordOf(w).details.previous_status = inflight[w].before
            /\ RecordOf(w).details.new_status # NULL =>
                  RecordOf(w).details.new_status = inflight[w].after

\* Both workers were audited for a request on the same incident.
BothAudited ==
    /\ \A w \in Workers : Audited(w)
    /\ \A v, w \in Workers : inflight[v].incident_id = inflight[w].incident_id

\* C24: in every interleaving of two requests on the same incident that meet
\* no failure the ledger has grown by two, each request has a record of its
\* own that holds its actor, action and incident, and a request that has
\* loaded or committed its incident is never kept from its next step by the
\* other one.
C24_NoLostAppend ==
    /\ BothAudited =>
          /\ Len(ledger) = Cardinality(Workers)
          /\ \A v, w \in Workers :
                inflight[v].row = inflight[w].row => v = w
          /\ \A w \in Workers :
                /\ inflight[w].row \in 1..Len(ledger)
                /\ RecordOf(w).admin_id = inflight[w].admin_id
                /\ RecordOf(w).action = IncidentAction(inflight[w].op)
                /\ RecordOf(w).resource_id = inflight[w].incident_id
    /\ \A w \in Workers :
          /\ inflight[w].pc = "found" => ENABLED CommitIncidentBy(w)
          /\ inflight[w].pc = "committed" => ENABLED AuditIncidentBy(w, "ok")

\* A verify and a resolve of one incident that both loaded it before either
\* committed, both audited.
C24_Witness ==
    /\ BothAudited
    /\ Len(ledger) = 2
    /\ inflight[1].op = "verify_incident"
    /\ inflight[2].op = "resolve_incident"
    /\ inflight[1].previous_status = "PENDING"
    /\ inflight[2].previous_status = "PENDING"

\* C25: in every reachable state the actor of every ledger record is a user
\* whose role is ADMIN (roles never change, so it was when the record was
\* written).
C25_ActorIsAdmin ==
    \A i \in 1..Len(ledger) : UserById(ledger[i].admin_id).role = "ADMIN"

\* The resource types the list, stats and map endpoints record.
AggregateViews ==
    {"USER", "INCIDENT", "AUDIT_LOG", "SOS", "SOS_STATS", "MAP_DATA"}

\* The actions recorded for verify, resolve and update incident, create alert
\* and resolve SOS.
TargetedActions ==
    {"VERIFY_INCIDENT", "RESOLVE_INCIDENT", "UPDATE_INCIDENT", "CREATE_ALERT"}

\* C26: in every reachable state a ledger record has a null resource_id only
\* if its resource_type is AUTH or it is a VIEW_INCIDENTS record of a list,
\* stats or map endpoint, and every record of verify, resolve or update
\* incident, create alert or resolve SOS has a non-null resource_id.
C26_NullResourceId ==
    \A i \in 1..Len(ledger) :
        /\ ledger[i].resource_id = NoId =>
              \/ ledger[i].resource_type = "AUTH"
              \/ /\ ledger[i].action = "VIEW_INCIDENTS"
                 /\ ledger[i].resource_type \in AggregateViews
        /\ ledger[i].action \in TargetedActions =>
              ledger[i].resource_id # NoId

\* A view record without a resource beside a record of an incident route
\* that names its incident.
C26_Witness ==
    /\ \E i \in 1..Len(ledger) :
          /\ ledger[i].action = "VIEW_INCIDENTS"
          /\ ledger[i].resource_id = NoId
    /\ \E i \in 1..Len(ledger) :
          /\ ledger[i].action \in TargetedActions
          /\ ledger[i].resource_type = "INCIDENT"
          /\ ledger[i].resource_id \in IncidentIds

\* C27: in every reachable state success is stored as 1 or 0 and every
\* ledger record with a non-null error_message has success 0.
C27_ErrorMessageOnlyOnFailure ==
    \A i \in 1..Len(ledger) :
        /\ ledger[i].success \in {0, 1}
        /\ ledger[i].error_message # NULL => ledger[i].success = 0

\* A failed login left a record with its error message, beside a record of
\* a success, which has none.
C27_Witness ==
    /\ \E i \in 1..Len(ledger) :
          /\ ledger[i].error_message = "Invalid password"
          /\ ledger[i].success = 0
    /\ \E i \in 1..Len(ledger) :
          /\ ledger[i].error_message = NULL
          /\ ledger[i].success = 1

\* C29: whenever send_sos meets a failure of the Message write, for a
\* signed-in or an anonymous caller, the step adds the SOS record with that
\* caller's id (null if anonymous), stores no Message and answers 201 with
\* the SOS it created; and no step stores a Message without having
\* committed its SOS record first.
C29_SosSurvivesMessageFailure ==
    [][/\ resp'.op = "send_sos" /\ env'.message = "commit_fails" =>
          /\ resp'.code = HTTP_201_CREATED
          /\ Len(sos_alerts') = Len(sos_alerts) + 1
          /\ SubSeq(sos_alerts', 1, Len(sos_alerts)) = sos_alerts
          /\ resp'.target = Len(sos_alerts')
          /\ sos_alerts'[resp'.target].id = resp'.target
          /\ sos_alerts'[resp'.target].user_id = resp'.actor
          /\ messages' = messages
       /\ messages' # messages =>
          /\ resp'.op = "send_sos"
          /\ env'.primary = "ok"
          /\ Len(sos_alerts') = Len(sos_alerts) + 1]_vars

\* Two SOS requests whose Message write failed, one anonymous and one of a
\* signed-in user: both SOS records are kept and there is no Message.
C29_Witness ==
    /\ resp.op = "send_sos"
    /\ env.message = "commit_fails"
    /\ resp.code = HTTP_201_CREATED
    /\ Len(sos_alerts) = 2
    /\ sos_alerts[1].user_id = NoId
    /\ sos_alerts[2].user_id # NoId
    /\ messages = <<>>

\* The token is a validly signed, unexpired JWT whose sub claim is the id of
\* the existing user `user`.
ValidTokenOf(token, user) ==
    /\ token.kind = "jwt"
    /\ token.signed
    /\ ~token.expired
    /\ token.sub # NoId
    /\ user # NoUser
    /\ user = UserById(token.sub)

\* C30: in every reachable state get_current_user returns a user only for a
\* validly signed, unexpired JWT whose sub claim is the id of that existing
\* user and answers 401 for every other token, so that require_admin lets
\* no request through to an admin route without such a token.
C30_AuthenticationRequiresValidToken ==
    \A token \in Tokens :
        LET current == get_current_user(token)
            admin == require_admin(token)
        IN  /\ current.code = HTTP_200_OK =>
                  ValidTokenOf(token, current.user)
            /\ current.code # HTTP_200_OK =>
                  current.code = HTTP_401_UNAUTHORIZED
            /\ admin.code = HTTP_200_OK => ValidTokenOf(token, admin.user)
====
